---- MODULE Spec2Model ----
(***************************************************************************)
(* A model of the Git object codec, the pkt-line codec and the Smart HTTP  *)
(* clone orchestrator of codecrafters-git-rust.                            *)
(*                                                                         *)
(* Bytes are the integers 0..255.  Text is a sequence of ASCII codes.  A   *)
(* Result<T> is a record [ok, val]: ok = TRUE carries the value, ok =      *)
(* FALSE carries the name of the failure.                                  *)
(***************************************************************************)
EXTENDS Integers, Sequences, FiniteSets, TLC

VARIABLES
    \* ---- pkt-line codec harness
    pktStage,     \* "off" | "start" | "encoded" | "decoded"
    pktIn,        \* the PktLine value handed to to_bytes
    pktBytes,     \* the bytes to_bytes produced
    pktOut,       \* the Result of PktLine::read on pktBytes
    \* ---- object body codec harness
    objStage,     \* "off" | "start" | "decoded" | "reencoded"
    objType,      \* "blob" | "tree" | "commit"
    objBody,      \* the body bytes as received
    objVal,       \* the Result of decode_body on objBody
    objReenc,     \* the Result of encode_body on the decoded value
    \* ---- GitClient::clone
    pc,             \* the step clone is at; "Done" and "Fatal" are final
    failure,        \* "none", or why clone failed
    requests,       \* the HTTP requests sent so far
    ref_discovery,  \* the GitRefDiscoveryResponse: refs and head_object_id
    want_response,  \* the answer to the upload-pack request
    chunks,         \* Packfile.chunks
    deltas,         \* the ref-deltas the delta loop has not reached yet
    object_map,     \* HashMap<Sha, AnyGitObject>
    files,          \* the files of the target directory, by path
    dirs,           \* the directories of the target directory
    toWrite,        \* keys of object_map the write loop has not reached yet
    refsLeft,       \* refs the ref loop has not reached yet
    stack,          \* the write_tree calls in progress, innermost first
    response,       \* the bytes ref discovery received: <<>> for none, <<bytes>>
    \* ---- object construction harness: new, encode_body, decode_body
    valStage,     \* "off" | "input" | "built" | "encoded" | "decoded"
    valType,      \* "tree" | "commit"
    valIn,        \* the arguments of Tree::new or Commit::new
    valObj,       \* the object built from valIn
    valBytes,     \* encode_body of valObj
    valOut,       \* the Result of decode_body on valBytes
    \* ---- AnyGitObject::read harness
    rdStage,      \* "off" | "start" | "read"
    rdStore,      \* the files under <root>, by path
    rdSha,        \* the sha argument, 40 hex characters
    rdOut,        \* how AnyGitObject::read ended
    \* ---- hash-object, write-tree, commit-tree and the loose store
    stPc,         \* "off" | "idle" | "walking": walking is inside parse_tree_object
    stCmd,        \* the command running or last run
    stRoot,       \* parent_path of parse_tree_object: <<>> for None, <<path>> for Some
    worktree,     \* the nodes of the working directory, by path
    stFiles,      \* the files under .git, by path
    stDirs,       \* the directories under .git
    stStack,      \* the parse_tree_object calls in progress, innermost first
    stOut,        \* how the last command ended
    stCount,      \* commands started so far
    \* ---- delta instruction harness
    dlStage,      \* "off" | "start" | "read" | "applied"
    dlBytes,      \* the instruction bytes of a delta
    dlSource,     \* the base the instructions are applied to
    dlInstrs,     \* the Result of collecting DeltaInstruction::read_many(dlBytes)
    dlOut,        \* the Result of DeltaInstruction::apply
    \* ---- Packfile::read harness
    pkStage,      \* "off" | "start" | "read"
    pkBytes,      \* the bytes handed to Packfile::read
    pkOut,        \* how Packfile::read ended, and where its cursor was
    \* ---- the stream readers, driven one item at a time
    srStage,      \* "off" | "reading" | "done": done once the reader has returned None
    srKind,       \* "pkt" | "delta" | "varint": which reader runs
    srChecks,     \* the build panics on arithmetic overflow
    srTyped,      \* get_obj_type of read_variable_length_integer
    srInput,      \* the bytes handed to the reader
    srRest,       \* the bytes the reader's iterator has not consumed
    srItems,      \* what the reader has yielded so far, in order
    \* ---- direct calls of DeltaInstruction::apply and send_want_request
    fnStage,      \* "off" | "start" | "returned"
    fnName,       \* "apply" | "send_want_request": the function called
    fnArgs,       \* its arguments
    fnOut         \* how the call ended

pktVars == <<pktStage, pktIn, pktBytes, pktOut>>
objVars == <<objStage, objType, objBody, objVal, objReenc>>

cloneVars == <<pc, failure, requests, ref_discovery, want_response, chunks,
               deltas, object_map, files, dirs, toWrite, refsLeft, stack,
               response>>

valVars == <<valStage, valType, valIn, valObj, valBytes, valOut>>

rdVars == <<rdStage, rdStore, rdSha, rdOut>>

stVars == <<stPc, stCmd, stRoot, worktree, stFiles, stDirs, stStack, stOut, stCount>>

dlVars == <<dlStage, dlBytes, dlSource, dlInstrs, dlOut>>

pkVars == <<pkStage, pkBytes, pkOut>>

srVars == <<srStage, srKind, srChecks, srTyped, srInput, srRest, srItems>>

fnVars == <<fnStage, fnName, fnArgs, fnOut>>

unitVars == <<valVars, rdVars, stVars, dlVars, pkVars, srVars, fnVars>>

vars == <<pktVars, objVars, cloneVars, unitVars>>

(***************************************************************************)
(* Bounds of the model.                                                    *)
(***************************************************************************)
MaxPayload == 3      \* longest pkt-line payload drawn as an input
MaxEntries == 2      \* most entries of a tree drawn as an input
MaxBlob == 2         \* longest blob drawn as an input
MaxPack == 4         \* most chunks of a pack the server answers with
MaxCommands == 1     \* most commands run one after the other on one store
MaxPackObjects == 2  \* most objects laid out in one pack
MaxFrames == 2       \* most frames or instructions laid out in one stream
MaxVarint == 11      \* most continuation bytes of a variable length integer
MaxInstrs == 3       \* most instructions of a list handed to DeltaInstruction::apply

(***************************************************************************)
(* Generic helpers.                                                        *)
(***************************************************************************)
Ok(v) == [ok |-> TRUE, val |-> v]
Err(e) == [ok |-> FALSE, val |-> e]

\* enum PktLine
StringDataPkt(s) == [kind |-> "StringDataPkt", data |-> s]
BinaryDataPkt(b) == [kind |-> "BinaryDataPkt", data |-> b]
FlushPkt == [kind |-> "FlushPkt", data |-> <<>>]

\* Each specification below runs one part of the program; the variables of
\* the other parts rest at these values.
EmptyMap == [k \in {} |-> 0]

ValOff ==
    /\ valStage = "off"
    /\ valType = "tree"
    /\ valIn = <<>>
    /\ valObj = <<>>
    /\ valBytes = <<>>
    /\ valOut = Err("none")

Outcome(outcome, val) == [outcome |-> outcome, val |-> val]

RdOff ==
    /\ rdStage = "off"
    /\ rdStore = EmptyMap
    /\ rdSha = <<>>
    /\ rdOut = Outcome("none", <<>>)

StOff ==
    /\ stPc = "off"
    /\ stCmd = "none"
    /\ stRoot = <<>>
    /\ worktree = EmptyMap
    /\ stFiles = EmptyMap
    /\ stDirs = {}
    /\ stStack = <<>>
    /\ stOut = Outcome("none", <<>>)
    /\ stCount = 0

DlOff ==
    /\ dlStage = "off"
    /\ dlBytes = <<>>
    /\ dlSource = <<>>
    /\ dlInstrs = Err("none")
    /\ dlOut = Err("none")

PackRead(outcome, val, bytes_read) ==
    [outcome |-> outcome, val |-> val, bytes_read |-> bytes_read]

PkOff ==
    /\ pkStage = "off"
    /\ pkBytes = <<>>
    /\ pkOut = PackRead("none", <<>>, 0)

SrOff ==
    /\ srStage = "off"
    /\ srKind = "pkt"
    /\ srChecks = FALSE
    /\ srTyped = FALSE
    /\ srInput = <<>>
    /\ srRest = <<>>
    /\ srItems = <<>>

FnOff ==
    /\ fnStage = "off"
    /\ fnName = "apply"
    /\ fnArgs = <<>>
    /\ fnOut = Outcome("none", <<>>)

UnitOff == ValOff /\ RdOff /\ StOff /\ DlOff /\ PkOff /\ SrOff /\ FnOff

CodecOff ==
    /\ objStage = "off"
    /\ objType = "blob"
    /\ objBody = <<>>
    /\ objVal = Err("none")
    /\ objReenc = Err("none")

PktOff ==
    /\ pktStage = "off"
    /\ pktIn = FlushPkt
    /\ pktBytes = <<>>
    /\ pktOut = Err("none")

NoRefs == [refs |-> EmptyMap, head_object_id |-> <<>>]
NoResponse == [line |-> <<>>, raws |-> <<>>]

CloneOff ==
    /\ pc = "off"
    /\ failure = "none"
    /\ requests = <<>>
    /\ ref_discovery = NoRefs
    /\ want_response = NoResponse
    /\ chunks = <<>>
    /\ deltas = <<>>
    /\ object_map = EmptyMap
    /\ files = EmptyMap
    /\ dirs = {}
    /\ toWrite = {}
    /\ refsLeft = {}
    /\ stack = <<>>
    /\ response = <<>>


SeqsUpTo(S, n) == UNION {[1..k -> S] : k \in 0..n}

Take(s, n) == SubSeq(s, 1, IF n < Len(s) THEN n ELSE Len(s))
Drop(s, n) == SubSeq(s, (IF n < Len(s) THEN n ELSE Len(s)) + 1, Len(s))

\* ASCII codes the program's literals use.
LF == 10

\* String::from_utf8 on the model's byte alphabets: every ASCII byte is valid
\* UTF-8 on its own, and the only other byte the inputs use, 0xFF, occurs in no
\* valid UTF-8 string.
IsUtf8(s) == \A i \in 1..Len(s) : s[i] < 128

\* format!("{:x}") of one hex digit: '0'..'9', 'a'..'f'.
HexDigit(d) == IF d < 10 THEN 48 + d ELSE 87 + d

\* char::to_digit(16): the value of a hex digit of either case, -1 otherwise.
HexValue(c) ==
    IF c >= 48 /\ c <= 57 THEN c - 48
    ELSE IF c >= 97 /\ c <= 102 THEN c - 87
    ELSE IF c >= 65 /\ c <= 70 THEN c - 55
    ELSE -1

\* format!("{:04x}", n): at least four lowercase hex digits, zero padded.
RECURSIVE HexDigits(_)
HexDigits(n) == IF n < 16 THEN <<HexDigit(n)>>
                ELSE HexDigits(n \div 16) \o <<HexDigit(n % 16)>>

RECURSIVE ZeroPad(_, _)
ZeroPad(s, w) == IF Len(s) >= w THEN s ELSE ZeroPad(<<48>> \o s, w)

Format04x(n) == ZeroPad(HexDigits(n), 4)

\* u64::from_str_radix(s, 16): an optional leading '+', then one or more hex
\* digits; anything else is an error.
RECURSIVE HexAccum(_, _)
HexAccum(s, acc) ==
    IF s = <<>> THEN acc
    ELSE HexAccum(Tail(s), acc * 16 + HexValue(Head(s)))

FromStrRadix16(s) ==
    LET digits == IF s # <<>> /\ Head(s) = 43 THEN Tail(s) ELSE s
    IN IF digits = <<>> \/ \E i \in 1..Len(digits) : HexValue(digits[i]) < 0
       THEN Err("ParseIntError")
       ELSE Ok(HexAccum(digits, 0))

(***************************************************************************)
(* Text helpers.                                                           *)
(***************************************************************************)
NUL == 0
SP == 32
LT == 60
GT == 62

\* Iterator::take_while(|b| b != sep): the items before the first sep, and the
\* iterator afterwards, which has consumed the sep too.
IndexOf(s, sep) ==
    LET at == {i \in 1..Len(s) : s[i] = sep}
    IN IF at = {} THEN 0 ELSE CHOOSE i \in at : \A j \in at : i <= j

TakeWhileNot(s, sep) ==
    LET i == IndexOf(s, sep)
    IN IF i = 0 THEN [taken |-> s, rest |-> <<>>]
       ELSE [taken |-> SubSeq(s, 1, i - 1), rest |-> SubSeq(s, i + 1, Len(s))]

\* str::split(sep): the pieces between the separators, empty pieces included.
RECURSIVE Split(_, _)
Split(s, sep) ==
    LET i == IndexOf(s, sep)
    IN IF i = 0 THEN <<s>>
       ELSE <<SubSeq(s, 1, i - 1)>> \o Split(SubSeq(s, i + 1, Len(s)), sep)

\* [T]::join(sep)
RECURSIVE Join(_, _)
Join(pieces, sep) ==
    IF pieces = <<>> THEN <<>>
    ELSE IF Len(pieces) = 1 THEN pieces[1]
    ELSE pieces[1] \o <<sep>> \o Join(Tail(pieces), sep)

RECURSIVE Concat(_)
Concat(pieces) ==
    IF pieces = <<>> THEN <<>> ELSE Head(pieces) \o Concat(Tail(pieces))

\* Ord for str and [u8]: lexicographic on the bytes.
RECURSIVE LexLess(_, _)
LexLess(a, b) ==
    IF b = <<>> THEN FALSE
    ELSE IF a = <<>> THEN TRUE
    ELSE IF Head(a) # Head(b) THEN Head(a) < Head(b)
    ELSE LexLess(Tail(a), Tail(b))

\* hex::encode: two lowercase digits a byte.
HexEncode(bytes) ==
    [i \in 1..(2 * Len(bytes)) |->
        IF i % 2 = 1 THEN HexDigit(bytes[(i + 1) \div 2] \div 16)
        ELSE HexDigit(bytes[i \div 2] % 16)]

\* hex::decode: an even number of hex digits of either case.
HexPairs(s) ==
    [i \in 1..(Len(s) \div 2) |-> HexValue(s[2 * i - 1]) * 16 + HexValue(s[2 * i])]

HexDecode(s) ==
    IF Len(s) % 2 # 0 \/ \E i \in 1..Len(s) : HexValue(s[i]) < 0
    THEN Err("FromHexError")
    ELSE Ok(HexPairs(s))

\* Display for u64.
RECURSIVE DecFormat(_)
DecFormat(n) == IF n < 10 THEN <<48 + n>>
                ELSE DecFormat(n \div 10) \o <<48 + (n % 10)>>

\* str::parse::<u64>(): an optional leading '+', then one or more decimal digits.
RECURSIVE DecAccum(_, _)
DecAccum(s, acc) ==
    IF s = <<>> THEN acc ELSE DecAccum(Tail(s), acc * 10 + (Head(s) - 48))

DecParse(s) ==
    LET digits == IF s # <<>> /\ Head(s) = 43 THEN Tail(s) ELSE s
    IN IF digits = <<>> \/ \E i \in 1..Len(digits) : digits[i] < 48 \/ digits[i] > 57
       THEN Err("ParseIntError")
       ELSE Ok(DecAccum(digits, 0))

(***************************************************************************)
(* Object model: Sha, Blob, Tree, Commit and their body codecs.            *)
(***************************************************************************)
ShaLen == 20

\* FileMode: the strum serialisations.
FileMode_as_ref(mode) ==
    CASE mode = "Regular" -> <<49, 48, 48, 54, 52, 52>>
      [] mode = "Executable" -> <<49, 48, 48, 55, 53, 53>>
      [] mode = "Symbolic" -> <<49, 50, 48, 48, 48, 48>>
      [] mode = "Directory" -> <<52, 48, 48, 48, 48>>

FileModes == {"Regular", "Executable", "Symbolic", "Directory"}

FileMode_from_str(s) ==
    IF \E m \in FileModes : FileMode_as_ref(m) = s
    THEN Ok(CHOOSE m \in FileModes : FileMode_as_ref(m) = s)
    ELSE Err("unknown mode")

TreeEntry(mode, name, hash) == [mode |-> mode, name |-> name, hash |-> hash]

TreeEntry_encode(entry) ==
    FileMode_as_ref(entry.mode) \o <<SP>> \o entry.name \o <<NUL>> \o entry.hash

\* TreeEntry::decode: the Result and the bytes the iterator has left.
TreeEntry_decode(bytes) ==
    LET m == TakeWhileNot(bytes, SP)
        mode == IF IsUtf8(m.taken) THEN FileMode_from_str(m.taken)
                ELSE Err("mode not utf8")
        n == TakeWhileNot(m.rest, NUL)
        hash == Take(n.rest, ShaLen)
        rest == Drop(n.rest, ShaLen)
    IN IF ~mode.ok THEN [res |-> Err("tree entry mode"), rest |-> m.rest]
       ELSE IF ~IsUtf8(n.taken) THEN [res |-> Err("tree entry name"), rest |-> n.rest]
       ELSE IF Len(hash) # ShaLen THEN [res |-> Err("tree entry sha1"), rest |-> rest]
       ELSE [res |-> Ok(TreeEntry(mode.val, n.taken, hash)), rest |-> rest]

\* slice::sort_by(|a, b| a.name.cmp(&b.name)): a stable sort on the name.
RECURSIVE InsertByName(_, _)
InsertByName(sorted, e) ==
    IF sorted = <<>> THEN <<e>>
    ELSE IF LexLess(e.name, Head(sorted).name) THEN <<e>> \o sorted
    ELSE <<Head(sorted)>> \o InsertByName(Tail(sorted), e)

RECURSIVE SortByName(_, _)
SortByName(entries, acc) ==
    IF entries = <<>> THEN acc
    ELSE SortByName(Tail(entries), InsertByName(acc, Head(entries)))

Tree_new_unsorted(entries) == entries

Tree_new(entries) == SortByName(entries, <<>>)

RECURSIVE Tree_encode_entries(_)
Tree_encode_entries(entries) ==
    IF entries = <<>> THEN <<>>
    ELSE TreeEntry_encode(Head(entries)) \o Tree_encode_entries(Tail(entries))

Tree_encode_body(tree) == Tree_encode_entries(tree)

RECURSIVE Tree_decode_entries(_, _)
Tree_decode_entries(bytes, acc) ==
    IF bytes = <<>> THEN Ok(acc)
    ELSE LET e == TreeEntry_decode(bytes)
         IN IF ~e.res.ok THEN e.res
            ELSE Tree_decode_entries(e.rest, Append(acc, e.res.val))

Tree_decode_body(from) ==
    LET entries == Tree_decode_entries(from, <<>>)
    IN IF entries.ok THEN Ok(Tree_new(entries.val)) ELSE entries

\* Blob: the body is the content verbatim.
Blob_encode_body(blob) == blob
Blob_decode_body(from) == Ok(from)

CommitActor(name, email, epoch, timezone) ==
    [name |-> name, email |-> email, epoch |-> epoch, timezone |-> timezone]

\* CommitActor::from_str: split on ' ', the last three tokens are email, epoch
\* and timezone, the rest joined is the name.  With fewer than three tokens
\* vec.len() - 3 underflows: a panic with overflow checks, a failed get
\* without; a failure either way.
CommitActor_from_str(s) ==
    LET vec == Split(s, SP)
        n == Len(vec)
    IN IF n < 3 THEN Err("actor: too few tokens")
       ELSE LET name == Join(SubSeq(vec, 1, n - 3), SP)
                email == vec[n - 2]
                epoch == DecParse(vec[n - 1])
                timezone == vec[n]
            IN IF email = <<>> \/ email[1] # LT \/ email[Len(email)] # GT
               THEN Err("actor: email not in angle brackets")
               ELSE IF ~epoch.ok THEN Err("actor: epoch")
               ELSE Ok(CommitActor(name, SubSeq(email, 2, Len(email) - 1),
                                   epoch.val, timezone))

CommitActor_format(actor) ==
    actor.name \o <<SP, LT>> \o actor.email \o <<GT, SP>>
    \o DecFormat(actor.epoch) \o <<SP>> \o actor.timezone

Str_tree == <<116, 114, 101, 101>>
Str_parent == <<112, 97, 114, 101, 110, 116>>
Str_author == <<97, 117, 116, 104, 111, 114>>
Str_committer == <<99, 111, 109, 109, 105, 116, 116, 101, 114>>

\* Commit: committer is an Option, <<>> for None and <<actor>> for Some.
Commit(tree_hash, parent_hash, author, committer, commit_message) ==
    [tree_hash |-> tree_hash, parent_hash |-> parent_hash, author |-> author,
     committer |-> committer, commit_message |-> commit_message]

RECURSIVE Commit_encode_parents(_)
Commit_encode_parents(parents) ==
    IF parents = <<>> THEN <<>>
    ELSE Str_parent \o <<SP>> \o HexEncode(Head(parents)) \o <<LF>>
         \o Commit_encode_parents(Tail(parents))

Commit_encode_body_committer_optional(commit) ==
    Str_tree \o <<SP>> \o HexEncode(commit.tree_hash) \o <<LF>>
    \o Commit_encode_parents(commit.parent_hash)
    \o Str_author \o <<SP>> \o CommitActor_format(commit.author) \o <<LF>>
    \o (IF commit.committer = <<>> THEN <<>>
        ELSE Str_committer \o <<SP>> \o CommitActor_format(commit.committer[1]) \o <<LF>>)
    \o <<LF>> \o commit.commit_message

Commit_encode_body(commit) ==
    LET committer == IF commit.committer = <<>> THEN commit.author
                     ELSE commit.committer[1]
    IN Str_tree \o <<SP>> \o HexEncode(commit.tree_hash) \o <<LF>>
       \o Commit_encode_parents(commit.parent_hash)
       \o Str_author \o <<SP>> \o CommitActor_format(commit.author) \o <<LF>>
       \o Str_committer \o <<SP>> \o CommitActor_format(committer) \o <<LF>>
       \o <<LF>> \o commit.commit_message

\* The header loop of Commit::decode_body: key up to ' ', value up to '\n',
\* until a line starts with '\n'.  When the input ends before that line, peek()
\* is None, the closure yields ("", "") for ever and collect never returns.
RECURSIVE Commit_decode_pairs(_, _)
Commit_decode_pairs(bytes, acc) ==
    IF bytes = <<>> THEN [res |-> Err("diverges"), rest |-> <<>>]
    ELSE IF Head(bytes) = LF THEN [res |-> Ok(acc), rest |-> Tail(bytes)]
    ELSE LET k == TakeWhileNot(bytes, SP)
             v == TakeWhileNot(k.rest, LF)
         IN IF ~IsUtf8(k.taken) \/ ~IsUtf8(v.taken)
            THEN [res |-> Err("key-value pairs"), rest |-> v.rest]
            ELSE Commit_decode_pairs(v.rest,
                     Append(acc, [key |-> k.taken, value |-> v.taken]))

\* The values of the pairs with the given key, in order.
RECURSIVE ValuesOf(_, _)
ValuesOf(pairs, key) ==
    IF pairs = <<>> THEN <<>>
    ELSE (IF Head(pairs).key = key THEN <<Head(pairs).value>> ELSE <<>>)
         \o ValuesOf(Tail(pairs), key)

\* hex::decode(v) and try_into::<[u8; 20]>
DecodeSha(v) ==
    LET d == HexDecode(v)
    IN IF d.ok /\ Len(d.val) = ShaLen THEN d ELSE Err("sha")

RECURSIVE DecodeShas(_)
DecodeShas(vs) ==
    IF vs = <<>> THEN Ok(<<>>)
    ELSE LET h == DecodeSha(Head(vs))
             t == DecodeShas(Tail(vs))
         IN IF h.ok /\ t.ok THEN Ok(<<h.val>> \o t.val) ELSE Err("parent hash")

Commit_decode_body(from) ==
    LET p == Commit_decode_pairs(from, <<>>)
    IN IF ~p.res.ok THEN p.res
       ELSE
       LET trees == ValuesOf(p.res.val, Str_tree)
           parents == DecodeShas(ValuesOf(p.res.val, Str_parent))
           authors == ValuesOf(p.res.val, Str_author)
           committers == ValuesOf(p.res.val, Str_committer)
       IN IF trees = <<>> THEN Err("no tree hash")
          ELSE IF ~DecodeSha(trees[1]).ok THEN Err("tree hash")
          ELSE IF ~parents.ok THEN parents
          ELSE IF authors = <<>> THEN Err("no author")
          ELSE IF ~CommitActor_from_str(authors[1]).ok THEN Err("author")
          ELSE IF committers # <<>> /\ ~CommitActor_from_str(committers[1]).ok
               THEN Err("committer")
          ELSE IF ~IsUtf8(p.rest) THEN Err("commit message")
          ELSE Ok(Commit(DecodeSha(trees[1]).val, parents.val,
                         CommitActor_from_str(authors[1]).val,
                         IF committers = <<>> THEN <<>>
                         ELSE <<CommitActor_from_str(committers[1]).val>>,
                         p.rest))

\* AnyGitObject: the variant and its value; decode_body and encode_body by variant.
ObjectTypes == {"blob", "tree", "commit"}

DecodeBody(type, from) ==
    CASE type = "blob" -> Blob_decode_body(from)
      [] type = "tree" -> Tree_decode_body(from)
      [] type = "commit" -> Commit_decode_body(from)

EncodeBody(type, val) ==
    CASE type = "blob" -> Blob_encode_body(val)
      [] type = "tree" -> Tree_encode_body(val)
      [] type = "commit" -> Commit_encode_body(val)

(***************************************************************************)
(* Object identity: get_header, encode_uncompressed and sha1.              *)
(***************************************************************************)
TypeName(type) ==
    CASE type = "blob" -> <<98, 108, 111, 98>>
      [] type = "tree" -> <<116, 114, 101, 101>>
      [] type = "commit" -> <<99, 111, 109, 109, 105, 116>>

\* "<type> <size>\0" for a body.
HeaderFor(type, body) == TypeName(type) \o <<SP>> \o DecFormat(Len(body)) \o <<NUL>>

GitObject_get_header(type, val) == HeaderFor(type, EncodeBody(type, val))

GitObject_encode_uncompressed(type, val) ==
    GitObject_get_header(type, val) \o EncodeBody(type, val)

\* SHA-1 is modelled by a 20-byte checksum: a position-weighted sum of the
\* input in the first two bytes, the input's length in the others.  It stands
\* for a collision-free digest: no two objects the model handles have the same
\* checksum.
RECURSIVE WeightedSum(_, _, _)
WeightedSum(bytes, lo, hi) ==
    IF lo > hi THEN 0
    ELSE IF lo = hi THEN ((bytes[lo] + 1) * (lo * lo + 3 * lo + 1)) % 65521
    ELSE LET mid == (lo + hi) \div 2
         IN (WeightedSum(bytes, lo, mid) + WeightedSum(bytes, mid + 1, hi)) % 65521

Sha1(bytes) ==
    LET v == WeightedSum(bytes, 1, Len(bytes))
    IN [i \in 1..ShaLen |-> IF i = 1 THEN v \div 256
                            ELSE IF i = 2 THEN v % 256
                            ELSE Len(bytes) % 256]

GitObject_sha1(type, val) == Sha1(GitObject_encode_uncompressed(type, val))

(***************************************************************************)
(* Harness of the body codecs: a well-formed body as Git writes it is      *)
(* decoded, then encoded again.                                            *)
(***************************************************************************)
ShaA == [i \in 1..ShaLen |-> 17]
ShaB == [i \in 1..ShaLen |-> 171]

\* Git's canonical entry order: by name, a directory's name compared as if it
\* ended in '/'.
GitSortKey(entry) ==
    IF entry.mode = "Directory" THEN entry.name \o <<47>> ELSE entry.name

EntryNames == {<<97>>, <<97, 46, 98>>, <<98>>}     \* "a", "a.b", "b"
EntryCands == {TreeEntry(m, n, h) : m \in FileModes, n \in EntryNames, h \in {ShaA, ShaB}}

GitCanonicalTrees ==
    {t \in SeqsUpTo(EntryCands, MaxEntries) :
        \A i \in 1..(Len(t) - 1) :
            /\ LexLess(GitSortKey(t[i]), GitSortKey(t[i + 1]))
            /\ t[i].name # t[i + 1].name}

ActorLines ==
    { <<65, 32, 60, 101, 62, 32, 55, 32, 43, 48, 49>>,            \* "A <e> 7 +01"
      <<65, 32, 66, 32, 60, 62, 32, 49, 48, 32, 45, 48>> }        \* "A B <> 10 -0"

ExtraHeaders ==
    { <<>>,
      <<101, 110, 99, 111, 100, 105, 110, 103, 32, 120, 10>> }    \* "encoding x\n"

Messages == { <<>>, <<109, 10>> }                                 \* "", "m\n"

ParentLists == { <<>>, <<ShaA>>, <<ShaB, ShaA>> }

\* A commit body as Git writes it.
GitCommitBody(tree, parents, author, committer, extra, message) ==
    Str_tree \o <<SP>> \o HexEncode(tree) \o <<LF>>
    \o Commit_encode_parents(parents)
    \o Str_author \o <<SP>> \o author \o <<LF>>
    \o Str_committer \o <<SP>> \o committer \o <<LF>>
    \o extra \o <<LF>> \o message

WellFormedBodies ==
    {[type |-> "blob", body |-> b] : b \in SeqsUpTo({NUL, 97}, MaxBlob)}
    \cup {[type |-> "tree", body |-> Tree_encode_entries(t)] : t \in GitCanonicalTrees}
    \cup {[type |-> "commit", body |-> GitCommitBody(ShaA, p, a, c, x, m)] :
            p \in ParentLists, a \in ActorLines, c \in ActorLines,
            x \in ExtraHeaders, m \in Messages}

CodecInit ==
    /\ PktOff
    /\ CloneOff
    /\ UnitOff
    /\ objStage = "start"
    /\ \E o \in WellFormedBodies : objType = o.type /\ objBody = o.body
    /\ objVal = Err("none")
    /\ objReenc = Err("none")

CodecDecode ==
    /\ objStage = "start"
    /\ objVal' = DecodeBody(objType, objBody)
    /\ objStage' = "decoded"
    /\ UNCHANGED <<objType, objBody, objReenc, pktVars, cloneVars, unitVars>>

CodecReencode ==
    /\ objStage = "decoded"
    /\ objReenc' = IF objVal.ok THEN Ok(EncodeBody(objType, objVal.val))
                   ELSE Err("not decoded")
    /\ objStage' = "reencoded"
    /\ UNCHANGED <<objType, objBody, objVal, pktVars, cloneVars, unitVars>>

CodecNext == CodecDecode \/ CodecReencode

(***************************************************************************)
(* C4: for every well-formed body b of type blob, tree or commit,          *)
(* encode_body(decode_body(b)) = b, so the sha computed from the decoded   *)
(* object, the key clone indexes and stores it under, is the SHA-1 of      *)
(* "<type> <size>\0" followed by the bytes as received.                    *)
(***************************************************************************)
C4_ReencodeStable ==
    objStage = "reencoded" =>
        /\ objReenc = Ok(objBody)
        /\ objVal.ok
        /\ GitObject_sha1(objType, objVal.val) = Sha1(HeaderFor(objType, objBody) \o objBody)

(***************************************************************************)
(* Object construction harness: Tree::new or Commit::new on drawn          *)
(* arguments, then encode_body, then decode_body of the bytes.             *)
(***************************************************************************)
Commit_new(tree_hash, parent_hashes, author, committer, commit_message) ==
    Commit(tree_hash, parent_hashes, author, committer, commit_message)

CommitActors ==
    { CommitActor(<<65, 32, 66>>, <<101>>, 7, <<43, 48, 49>>),    \* "A B" <e> 7 +01
      CommitActor(<<67>>, <<>>, 10, <<45, 48>>) }                 \* "C" <> 10 -0

CommitArgs ==
    [tree_hash : {ShaA}, parent_hashes : ParentLists, author : CommitActors,
     committer : {<<>>} \cup {<<a>> : a \in CommitActors},
     commit_message : Messages]

TreeArgs == SeqsUpTo(EntryCands, MaxEntries)

ValInit ==
    /\ PktOff
    /\ CodecOff
    /\ CloneOff
    /\ RdOff
    /\ StOff
    /\ DlOff
    /\ PkOff
    /\ SrOff
    /\ FnOff
    /\ valStage = "input"
    /\ \/ valType = "tree" /\ valIn \in TreeArgs
       \/ valType = "commit" /\ valIn \in CommitArgs
    /\ valObj = <<>>
    /\ valBytes = <<>>
    /\ valOut = Err("none")

ValNew ==
    /\ valStage = "input"
    /\ valObj' = IF valType = "tree" THEN Tree_new(valIn)
                 ELSE Commit_new(valIn.tree_hash, valIn.parent_hashes, valIn.author,
                                 valIn.committer, valIn.commit_message)
    /\ valStage' = "built"
    /\ UNCHANGED <<valType, valIn, valBytes, valOut, pktVars, objVars, cloneVars, rdVars, stVars, dlVars, pkVars, srVars, fnVars>>

ValEncode ==
    /\ valStage = "built"
    /\ valBytes' = EncodeBody(valType, valObj)
    /\ valStage' = "encoded"
    /\ UNCHANGED <<valType, valIn, valObj, valOut, pktVars, objVars, cloneVars, rdVars, stVars, dlVars, pkVars, srVars, fnVars>>

ValDecode ==
    /\ valStage = "encoded"
    /\ valOut' = DecodeBody(valType, valBytes)
    /\ valStage' = "decoded"
    /\ UNCHANGED <<valType, valIn, valObj, valBytes, pktVars, objVars, cloneVars, rdVars, stVars, dlVars, pkVars, srVars, fnVars>>

ValNext == ValNew \/ ValEncode \/ ValDecode

(***************************************************************************)
(* Pkt-line codec: PktLine::to_bytes and PktLine::read.                    *)
(***************************************************************************)

PktLine_to_bytes_off_by_one(line) ==
    CASE line.kind = "StringDataPkt" ->
            Format04x(Len(line.data) + 4) \o line.data \o <<LF>>
      [] line.kind = "BinaryDataPkt" ->
            Format04x(Len(line.data) + 4) \o line.data
      [] OTHER -> <<48, 48, 48, 48>>

PktLine_to_bytes(line) ==
    CASE line.kind = "StringDataPkt" ->
            Format04x(Len(line.data) + 5) \o line.data \o <<LF>>
      [] line.kind = "BinaryDataPkt" ->
            Format04x(Len(line.data) + 4) \o line.data
      [] OTHER -> <<48, 48, 48, 48>>

\* PktLine::read: the Result, and the input the iterator has not consumed.
PktLine_read(bytes) ==
    LET lenStr == Take(bytes, 4)
        afterLen == Drop(bytes, 4)
        parsed == IF IsUtf8(lenStr) THEN FromStrRadix16(lenStr)
                  ELSE Err("FromUtf8Error")
    IN IF ~parsed.ok THEN [res |-> Err("pkt-len"), rest |-> afterLen]
       ELSE IF parsed.val = 0 THEN [res |-> Ok(FlushPkt), rest |-> afterLen]
       ELSE IF parsed.val <= 4 THEN [res |-> Err("pkt-len too small"), rest |-> afterLen]
       ELSE LET pkt_data == Take(afterLen, parsed.val - 4)
                rest == Drop(afterLen, parsed.val - 4)
            IN IF pkt_data # <<>> /\ pkt_data[Len(pkt_data)] = LF
               THEN LET str == SubSeq(pkt_data, 1, Len(pkt_data) - 1)
                    IN IF IsUtf8(str)
                       THEN [res |-> Ok(StringDataPkt(str)), rest |-> rest]
                       ELSE [res |-> Err("pkt-data not utf8"), rest |-> rest]
               ELSE [res |-> Ok(BinaryDataPkt(pkt_data)), rest |-> rest]

(***************************************************************************)
(* zlib, abstracted to a framing that can be inverted and that ends where  *)
(* it says: the two-byte zlib header, the length of the data in two bytes, *)
(* the data.                                                               *)
(***************************************************************************)
compress(input) ==
    <<120, 156, Len(input) \div 256, Len(input) % 256>> \o input

\* ZlibReadDecoder over a slice, read to the end of the stream: the data and
\* total_in, the bytes of the slice the stream took.  What follows the stream
\* is not read.
decompress_slice(content) ==
    IF /\ Len(content) >= 4
       /\ SubSeq(content, 1, 2) = <<120, 156>>
       /\ Len(content) >= 4 + content[3] * 256 + content[4]
    THEN [ok |-> TRUE, val |-> SubSeq(content, 5, 4 + content[3] * 256 + content[4]),
          total_in |-> 4 + content[3] * 256 + content[4]]
    ELSE [ok |-> FALSE, val |-> <<>>, total_in |-> 0]

\* The write decoder over the whole input: one stream and nothing else.
decompress(input) ==
    IF decompress_slice(input).ok /\ decompress_slice(input).total_in = Len(input)
    THEN Ok(decompress_slice(input).val)
    ELSE Err("DecompressError")

GitObject_encode(type, val) == compress(GitObject_encode_uncompressed(type, val))

(***************************************************************************)
(* Paths of the target directory, relative to it: byte strings with '/'.   *)
(***************************************************************************)
SLASH == 47
DotGit == <<46, 103, 105, 116>>                                     \* ".git"
Str_objects == <<111, 98, 106, 101, 99, 116, 115>>                  \* "objects"
Str_HEAD == <<72, 69, 65, 68>>                                      \* "HEAD"
Str_ref == <<114, 101, 102, 58, 32>>                                \* "ref: "

\* Path::join for a relative component.
PathJoin(base, name) == IF base = <<>> THEN name ELSE base \o <<SLASH>> \o name

\* Path::parent, and every ancestor create_dir_all makes, the path included.
PathParent(path) ==
    LET at == {i \in 1..Len(path) : path[i] = SLASH}
    IN IF at = {} THEN <<>>
       ELSE SubSeq(path, 1, (CHOOSE i \in at : \A j \in at : j <= i) - 1)

PathAndAncestors(path) ==
    {SubSeq(path, 1, i - 1) : i \in {j \in 1..Len(path) : path[j] = SLASH}}
    \cup {path}

\* get_object_folder_path and get_object_file_path for a 40-character hex sha.
get_object_folder_path(sha1hex) ==
    PathJoin(PathJoin(DotGit, Str_objects), SubSeq(sha1hex, 1, 2))

get_object_file_path(sha1hex) ==
    PathJoin(get_object_folder_path(sha1hex), SubSeq(sha1hex, 3, Len(sha1hex)))

\* Display for Sha: hex::encode, nothing after it.
Sha_to_string(sha) == HexEncode(sha)

\* A file of the target directory: its bytes and what kind of file it is.
PlainFile(data) == [data |-> data, kind |-> "plain"]

Put(f, key, value) ==
    [k \in DOMAIN f \cup {key} |-> IF k = key THEN value ELSE f[k]]

(***************************************************************************)
(* Delta instructions and their application.                               *)
(***************************************************************************)
CopyInstr(offset, length) ==
    [op |-> "Copy", offset |-> offset, length |-> length, data |-> <<>>]
InsertInstr(data) ==
    [op |-> "Insert", offset |-> 0, length |-> 0, data |-> data]

\* DeltaInstruction::apply with every Copy taken from the start of the source.
RECURSIVE DeltaInstruction_apply_from_start(_, _)
DeltaInstruction_apply_from_start(instructions, source) ==
    IF instructions = <<>> THEN Ok(<<>>)
    ELSE LET i == Head(instructions)
             rest == DeltaInstruction_apply_from_start(Tail(instructions), source)
         IN IF i.op = "Copy" /\ i.offset + i.length > Len(source)
            THEN Err("panic: range end index out of range")
            ELSE IF ~rest.ok THEN rest
            ELSE IF i.op = "Copy"
                 THEN Ok(SubSeq(source, 1, i.length) \o rest.val)
                 ELSE Ok(i.data \o rest.val)

\* DeltaInstruction::apply: source[offset..offset + length] panics when the
\* range leaves the source.
RECURSIVE DeltaInstruction_apply(_, _)
DeltaInstruction_apply(instructions, source) ==
    IF instructions = <<>> THEN Ok(<<>>)
    ELSE LET i == Head(instructions)
             rest == DeltaInstruction_apply(Tail(instructions), source)
         IN IF i.op = "Copy" /\ i.offset + i.length > Len(source)
            THEN Err("panic: range end index out of range")
            ELSE IF ~rest.ok THEN rest
            ELSE IF i.op = "Copy"
                 THEN Ok(SubSeq(source, i.offset + 1, i.offset + i.length) \o rest.val)
                 ELSE Ok(i.data \o rest.val)

\* The loop "for i in lo..hi" of DeltaInstruction::read: for each set bit i
\* of flags the next byte, shifted left by 8 * (i - lo), is ORed into the
\* accumulator.  ok is FALSE when a selected byte is missing.
RECURSIVE ReadSelected(_, _, _, _, _)
ReadSelected(flags, lo, i, hi, bytes) ==
    IF i >= hi THEN [ok |-> TRUE, acc |-> 0, rest |-> bytes]
    ELSE IF (flags \div (2 ^ i)) % 2 = 0 THEN ReadSelected(flags, lo, i + 1, hi, bytes)
    ELSE IF bytes = <<>> THEN [ok |-> FALSE, acc |-> 0, rest |-> <<>>]
    ELSE LET r == ReadSelected(flags, lo, i + 1, hi, Tail(bytes))
         IN [ok |-> r.ok, acc |-> Head(bytes) * (2 ^ (8 * (i - lo))) + r.acc,
             rest |-> r.rest]

\* DeltaInstruction::read: the Result and the bytes the iterator has left.
DeltaInstruction_read(bytes) ==
    IF bytes = <<>>
    THEN [res |-> Err("DeltaInstruction::read: empty iterator"), rest |-> <<>>]
    ELSE LET first_byte == Head(bytes)
             flags == first_byte % 128
             offset == ReadSelected(flags, 0, 0, 4, Tail(bytes))
             length == ReadSelected(flags, 4, 4, 6, offset.rest)
         IN IF first_byte < 128
            THEN [res |-> Ok(InsertInstr(Take(Tail(bytes), first_byte))),
                  rest |-> Drop(Tail(bytes), first_byte)]
            ELSE IF ~offset.ok
            THEN [res |-> Err("DeltaInstruction::read: expected offset byte"), rest |-> <<>>]
            ELSE IF ~length.ok
            THEN [res |-> Err("DeltaInstruction::read: expected size byte"), rest |-> <<>>]
            ELSE [res |-> Ok(CopyInstr(offset.acc, length.acc)), rest |-> length.rest]

\* DeltaInstruction::read_many collected into a Result<Vec<_>>.
RECURSIVE DeltaInstruction_read_many(_)
DeltaInstruction_read_many(bytes) ==
    IF bytes = <<>> THEN Ok(<<>>)
    ELSE LET one == DeltaInstruction_read(bytes)
             more == DeltaInstruction_read_many(one.rest)
         IN IF ~one.res.ok THEN one.res
            ELSE IF ~more.ok THEN more
            ELSE Ok(<<one.res.val>> \o more.val)

(***************************************************************************)
(* Pack chunks.  A raw chunk is what the pack holds once its varint header *)
(* is read and its zlib stream inflated; PackfileObject::decode turns it   *)
(* into a PackfileObject.                                                  *)
(***************************************************************************)
RawObject(code, body) ==
    [code |-> code, body |-> body, obj_name |-> <<>>, base_obj_size |-> 0,
     target_obj_size |-> 0, instructions |-> <<>>]

RawRefDelta(obj_name, base_obj_size, target_obj_size, instructions) ==
    [code |-> 7, body |-> <<>>, obj_name |-> obj_name,
     base_obj_size |-> base_obj_size, target_obj_size |-> target_obj_size,
     instructions |-> instructions]

\* A PackfileObject: a git object [type, val], or a ref-delta.
PackObj(type, val) == [kind |-> "object", type |-> type, val |-> val]
PackDelta(raw) ==
    [kind |-> "ObjRefDelta", obj_name |-> raw.obj_name,
     base_obj_size |-> raw.base_obj_size,
     target_obj_size |-> raw.target_obj_size,
     instructions |-> raw.instructions]

AsPackObj(type, decoded) ==
    IF decoded.ok THEN Ok(PackObj(type, decoded.val)) ELSE decoded

PackfileObject_decode(raw) ==
    CASE raw.code = 1 -> AsPackObj("commit", Commit_decode_body(raw.body))
      [] raw.code = 2 -> AsPackObj("tree", Tree_decode_body(raw.body))
      [] raw.code = 3 -> AsPackObj("blob", Blob_decode_body(raw.body))
      [] raw.code = 7 -> Ok(PackDelta(raw))
      [] OTHER -> Err("unsupported object type")

\* Packfile::read, from the object table on: the chunks in pack order, or the
\* first failure.
PushChunk(chunk, rest) ==
    IF ~chunk.ok THEN Err("Packfile::read: failed to decode object")
    ELSE IF rest.ok THEN Ok(<<chunk.val>> \o rest.val)
    ELSE rest

RECURSIVE Packfile_read_chunks(_)
Packfile_read_chunks(raws) ==
    IF raws = <<>> THEN Ok(<<>>)
    ELSE PushChunk(PackfileObject_decode(Head(raws)),
                   Packfile_read_chunks(Tail(raws)))

(***************************************************************************)
(* The pack as bytes: read_variable_length_integer, PackfileObject::decode *)
(* on a slice, and Packfile::read with its cursor bytes_read.              *)
(***************************************************************************)
\* usize on the 64-bit targets: a value is the set of its one bits.
UsizeBits == 64

BitsOf(byte) == {i \in 0..7 : (byte \div (2 ^ i)) % 2 = 1}

\* (data as usize) << shift: the bits that leave the word are lost.
ShiftLeft(data, shift) ==
    {i + shift : i \in BitsOf(data)} \cap (0..(UsizeBits - 1))

RECURSIVE BitsValue(_)
BitsValue(bits) ==
    IF bits = {} THEN 0
    ELSE LET top == CHOOSE i \in bits : \A j \in bits : j <= i
         IN 2 ^ top + BitsValue(bits \ {top})

VarintEnd(outcome, bits, bytes_read, rest) ==
    [outcome |-> outcome, bits |-> bits, bytes_read |-> bytes_read, rest |-> rest]

\* The loop of read_variable_length_integer.  first: the object type is still
\* to be taken from the byte.  length and bytes_read are u8.  overflow_checks:
\* the build panics on arithmetic overflow (debug profile); without them the
\* additions wrap and the shift amount is taken modulo the width (release
\* profile).
RECURSIVE VarintLoop(_, _, _, _, _, _)
RECURSIVE VarintStep(_, _, _, _, _, _, _)
VarintLoop(bytes, first, bits, length, bytes_read, overflow_checks) ==
    IF overflow_checks /\ bytes_read = 255
    THEN VarintEnd("panic", bits, bytes_read, bytes)
    ELSE IF bytes = <<>>
    THEN VarintEnd("err", bits, (bytes_read + 1) % 256, <<>>)
    ELSE IF overflow_checks /\ length >= UsizeBits
    THEN VarintEnd("panic", bits, (bytes_read + 1) % 256, Tail(bytes))
    ELSE VarintStep(bytes, bits, length, (bytes_read + 1) % 256, overflow_checks,
             ShiftLeft(IF first THEN Head(bytes) % 16 ELSE Head(bytes) % 128,
                       length % UsizeBits),
             IF first THEN 4 ELSE 7)

VarintStep(bytes, bits, length, bytes_read, overflow_checks, shifted, offset) ==
    IF Head(bytes) < 128 THEN VarintEnd("ok", bits \cup shifted, bytes_read, Tail(bytes))
    ELSE IF overflow_checks /\ length + offset > 255
    THEN VarintEnd("panic", bits \cup shifted, bytes_read, Tail(bytes))
    ELSE VarintLoop(Tail(bytes), FALSE, bits \cup shifted, (length + offset) % 256,
                    bytes_read, overflow_checks)

\* read_variable_length_integer under a build profile: how it ends, the value
\* as bits, the object type and the byte count it reports.
read_variable_length_integer_build(bytes, get_obj_type, overflow_checks) ==
    [outcome |-> VarintLoop(bytes, get_obj_type, {}, 0, 0, overflow_checks).outcome,
     bits |-> VarintLoop(bytes, get_obj_type, {}, 0, 0, overflow_checks).bits,
     obj_type |-> IF get_obj_type /\ bytes # <<>> THEN <<(Head(bytes) % 128) \div 16>>
                  ELSE <<>>,
     bytes_read |-> VarintLoop(bytes, get_obj_type, {}, 0, 0, overflow_checks).bytes_read,
     rest |-> VarintLoop(bytes, get_obj_type, {}, 0, 0, overflow_checks).rest]

\* read_variable_length_integer as PackfileObject::decode calls it, on headers
\* short enough for the two profiles to agree.
read_variable_length_integer(bytes, get_obj_type) ==
    [ok |-> read_variable_length_integer_build(bytes, get_obj_type, TRUE).outcome = "ok",
     value |-> BitsValue(read_variable_length_integer_build(bytes, get_obj_type, TRUE).bits),
     obj_type |-> read_variable_length_integer_build(bytes, get_obj_type, TRUE).obj_type,
     bytes_read |-> read_variable_length_integer_build(bytes, get_obj_type, TRUE).bytes_read]

\* The end of an arm of PackfileObject::decode: the decoded chunk and the
\* bytes the object took.
DecodedChunk(chunk, bytes_read) ==
    IF chunk.ok THEN PackRead("ok", chunk.val, bytes_read)
    ELSE IF chunk.val = "diverges" THEN PackRead("diverges", <<>>, 0)
    ELSE PackRead("err", chunk.val, 0)

\* decode_zlib and the arms 1, 2 and 3.
PackfileObject_decode_plain(code, expected_size, z, bytes_read_varint) ==
    IF ~z.ok THEN PackRead("err", "failed to finish zlib decoder", 0)
    ELSE IF expected_size # Len(z.val)
    THEN PackRead("panic", "object size doesn't match decompressed content size", 0)
    ELSE DecodedChunk(PackfileObject_decode(RawObject(code, z.val)),
                      z.total_in + bytes_read_varint)

\* The rest of arm 7 once the stream is inflated: the two sizes, then the
\* instructions, collected.
PackfileObject_decode_sizes(content, base) ==
    [ok |-> base.ok
            /\ read_variable_length_integer(Drop(content, base.bytes_read), FALSE).ok,
     base_obj_size |-> base.value,
     target_obj_size |->
         read_variable_length_integer(Drop(content, base.bytes_read), FALSE).value,
     rest |-> Drop(content, base.bytes_read
                  + read_variable_length_integer(Drop(content, base.bytes_read),
                                                 FALSE).bytes_read)]

PackfileObject_decode_delta(obj_name, sizes, instructions, bytes_read) ==
    IF ~sizes.ok THEN PackRead("err", "failed to read object size", 0)
    ELSE IF ~instructions.ok THEN PackRead("err", instructions.val, 0)
    ELSE DecodedChunk(
             PackfileObject_decode(RawRefDelta(obj_name, sizes.base_obj_size,
                                               sizes.target_obj_size, instructions.val)),
             bytes_read)

\* Arm 7 from the object name on.  z: the inflated stream after the name.
PackfileObject_decode_ref(content, h, z) ==
    IF ~z.ok THEN PackRead("err", "failed to finish zlib decoder", 0)
    ELSE IF h.value # Len(z.val)
    THEN PackRead("panic", "object size doesn't match decompressed content size", 0)
    ELSE PackfileObject_decode_delta(
             SubSeq(content, h.bytes_read + 1, h.bytes_read + ShaLen),
             PackfileObject_decode_sizes(z.val,
                 read_variable_length_integer(z.val, FALSE)),
             DeltaInstruction_read_many(
                 PackfileObject_decode_sizes(z.val,
                     read_variable_length_integer(z.val, FALSE)).rest),
             z.total_in + ShaLen + h.bytes_read)

\* PackfileObject::decode on a slice of the pack.  h: the object header.
PackfileObject_decode_slice(content, h) ==
    IF ~h.ok THEN PackRead("err", "failed to read object size", 0)
    ELSE IF h.obj_type[1] \in {1, 2, 3}
    THEN PackfileObject_decode_plain(h.obj_type[1], h.value,
             decompress_slice(Drop(content, h.bytes_read)), h.bytes_read)
    ELSE IF h.obj_type[1] # 7 THEN PackRead("err", "unsupported object type", 0)
    ELSE IF Len(content) - h.bytes_read < ShaLen
    THEN PackRead("err", "expected object name to be 20 bytes", 0)
    ELSE PackfileObject_decode_ref(content, h,
             decompress_slice(Drop(content, h.bytes_read + ShaLen)))

\* The map over 0..object_amount of Packfile::read, collected: the chunks and
\* the cursor bytes_read after the last of them.
RECURSIVE Packfile_read_objects(_, _, _, _)
Packfile_read_step(binary_data, bytes_read, left, acc, d) ==
    IF d.outcome # "ok"
    THEN PackRead(d.outcome, "Packfile::read: failed to decode object", bytes_read)
    ELSE Packfile_read_objects(binary_data, bytes_read + d.bytes_read, left - 1,
                               Append(acc, d.val))

Packfile_read_objects(binary_data, bytes_read, left, acc) ==
    IF left = 0 THEN PackRead("ok", acc, bytes_read)
    ELSE Packfile_read_step(binary_data, bytes_read, left, acc,
             PackfileObject_decode_slice(Drop(binary_data, bytes_read),
                 read_variable_length_integer(Drop(binary_data, bytes_read), TRUE)))

\* u32::from_be_bytes
FromBe32(b) == ((b[1] * 256 + b[2]) * 256 + b[3]) * 256 + b[4]

Str_PACK == <<80, 65, 67, 75>>

\* Packfile::read.  The result carries the cursor bytes_read as it is when the
\* function returns.
Packfile_read(bytes) ==
    IF Take(bytes, 4) # Str_PACK
    THEN PackRead("panic", "Packfile::read: packfiles should start with PACK", 0)
    ELSE IF Len(bytes) < 8
    THEN PackRead("err", "Packfile::read: failed to convert version bytes to u32", 0)
    ELSE IF FromBe32(SubSeq(bytes, 5, 8)) # 2
    THEN PackRead("panic", "Packfile::read: expected version 2", 0)
    ELSE IF Len(bytes) < 12
    THEN PackRead("err", "Packfile::read: failed to convert object amount bytes to u32", 0)
    ELSE IF Len(bytes) - 12 < ShaLen
    THEN PackRead("panic", "attempt to subtract with overflow, or split_off: at > len", 0)
    ELSE Packfile_read_objects(SubSeq(bytes, 13, Len(bytes) - ShaLen), 0,
                               FromBe32(SubSeq(bytes, 9, 12)), <<>>)

\* Iterator::partition and the two collections clone builds from it.
IsDelta(chunk) == chunk.kind = "ObjRefDelta"
IsObject(chunk) == chunk.kind = "object"

DeltasOf(cs) == SelectSeq(cs, IsDelta)
ObjectsOf(cs) == SelectSeq(cs, IsObject)

AnyObj(type, val) == [type |-> type, val |-> val]
AnyGitObject_sha1(obj) == GitObject_sha1(obj.type, obj.val)
AnyGitObject_encode_body(obj) == EncodeBody(obj.type, obj.val)

(***************************************************************************)
(* Reading a loose object: AnyGitObject::read and AnyGitObject::decode.    *)
(* A call ends with an object ("ok"), with an Err ("err"), with a panic    *)
(* ("panic"), or never ("diverges").                                       *)
(***************************************************************************)
\* GitObjectType's EnumString
GitObjectType_from_str(s) ==
    IF \E t \in ObjectTypes : TypeName(t) = s
    THEN Ok(CHOOSE t \in ObjectTypes : TypeName(t) = s)
    ELSE Err("unknown object type")

\* The match on object_type: decode_body of the variant.
AnyGitObject_decode_content(type, content) ==
    LET body == DecodeBody(type, content)
    IN IF body.ok THEN Outcome("ok", AnyObj(type, body.val))
       ELSE IF body.val = "diverges" THEN Outcome("diverges", <<>>)
       ELSE Outcome("err", body.val)

\* assert_eq!(content.len(), content_size), then the match.
AnyGitObject_decode_sized(type, content_size, content) ==
    IF Len(content) # content_size
    THEN Outcome("panic", "assertion failed: content.len() == content_size")
    ELSE AnyGitObject_decode_content(type, content)

AnyGitObject_decode(raw_content) ==
    LET decompressed_content == decompress(raw_content)
    IN IF ~decompressed_content.ok
       THEN Outcome("err", "failed to decompress object file")
       ELSE
       LET nul == IndexOf(decompressed_content.val, NUL)
           parts == TakeWhileNot(decompressed_content.val, NUL)
           sp == IndexOf(parts.taken, SP)
           header == TakeWhileNot(parts.taken, SP)
           object_type == GitObjectType_from_str(header.taken)
           content_size == DecParse(header.rest)
       IN IF nul = 0 THEN Outcome("err", "invalid object file: expected it to contain NUL")
          ELSE IF ~IsUtf8(parts.taken)
               THEN Outcome("err", "failed to parse object file header")
          ELSE IF sp = 0
               THEN Outcome("err", "failed to decode git object: expected header to have format")
          ELSE IF ~object_type.ok THEN Outcome("err", "failed to decode object type")
          ELSE IF ~content_size.ok THEN Outcome("err", "failed to decode content size")
          ELSE AnyGitObject_decode_sized(object_type.val, content_size.val, parts.rest)

AnyGitObject_read(sha, store) ==
    LET path == get_object_file_path(sha)
    IN IF path \notin DOMAIN store THEN Outcome("err", "failed to read object file")
       ELSE AnyGitObject_decode(store[path])

\* The object files the harness puts under the sha: "<type> <size>\0<body>"
\* with each part right or wrong, compressed or not.
Str_tag == <<116, 97, 103>>
RawTypes == {TypeName(t) : t \in ObjectTypes} \cup {Str_tag}
RawSizes == { <<48>>, <<49>>, <<50>>, <<120>>, <<>> }             \* "0" "1" "2" "x" ""
RawBodies == SeqsUpTo({NUL, 97}, MaxBlob)

RawUncompressed ==
    {t \o <<SP>> \o z \o <<NUL>> \o b : t \in RawTypes, z \in RawSizes, b \in RawBodies}
    \cup {t \o <<SP>> \o z : t \in RawTypes, z \in RawSizes}
    \cup {t \o z \o <<NUL>> \o b : t \in RawTypes, z \in {<<49>>}, b \in RawBodies}
    \cup {<<255>> \o t \o <<SP, 48, NUL>> : t \in RawTypes}

RawFiles == {compress(u) : u \in RawUncompressed} \cup RawUncompressed

RdInit ==
    /\ PktOff
    /\ CodecOff
    /\ CloneOff
    /\ ValOff
    /\ StOff
    /\ DlOff
    /\ PkOff
    /\ SrOff
    /\ FnOff
    /\ rdStage = "start"
    /\ rdSha = HexEncode(ShaA)
    /\ \/ rdStore = EmptyMap
       \/ \E raw \in RawFiles : rdStore = Put(EmptyMap, get_object_file_path(rdSha), raw)
    /\ rdOut = Outcome("none", <<>>)

RdRead ==
    /\ rdStage = "start"
    /\ rdOut' = AnyGitObject_read(rdSha, rdStore)
    /\ rdStage' = "read"
    /\ UNCHANGED <<rdStore, rdSha, pktVars, objVars, cloneVars, valVars, stVars, dlVars, pkVars, srVars, fnVars>>

RdNext == RdRead

\* HashMap::insert.
RECURSIVE CollectObjects(_, _)
CollectObjects(objs, map) ==
    IF objs = <<>> THEN map
    ELSE LET o == AnyObj(Head(objs).type, Head(objs).val)
         IN CollectObjects(Tail(objs), Put(map, AnyGitObject_sha1(o), o))

\* One iteration of the delta loop of clone on the object map: the map with
\* the reconstructed object inserted, or the failure that ends clone.
InsertKey_base_name(obj_name, new_obj) == obj_name

InsertKey(obj_name, new_obj) == AnyGitObject_sha1(new_obj)

\* The steps of one iteration, last first: each takes what the step before
\* it produced.
InsertTarget(map, delta, new_obj, encoded_target) ==
    IF Len(encoded_target) # delta.target_obj_size
    THEN Err("panic: object size doesn't match delta target object size")
    ELSE Ok(Put(map, InsertKey(delta.obj_name, new_obj), new_obj))

DecodeTarget(map, delta, type, decoded) ==
    IF ~decoded.ok THEN Err("failed to decode object after delta")
    ELSE InsertTarget(map, delta, AnyObj(type, decoded.val),
                      EncodeBody(type, decoded.val))

ApplyToBase(map, delta, type, encoded_obj) ==
    IF Len(encoded_obj) # delta.base_obj_size
    THEN Err("panic: object size doesn't match delta base object size")
    ELSE IF ~DeltaInstruction_apply(delta.instructions, encoded_obj).ok
    THEN DeltaInstruction_apply(delta.instructions, encoded_obj)
    ELSE DecodeTarget(map, delta, type,
            DecodeBody(type, DeltaInstruction_apply(delta.instructions, encoded_obj).val))

ApplyOneDelta(map, delta) ==
    IF delta.obj_name \notin DOMAIN map
    THEN Err("failed to find object with name")
    ELSE ApplyToBase(map, delta, map[delta.obj_name].type,
                     AnyGitObject_encode_body(map[delta.obj_name]))

(***************************************************************************)
(* The upload-pack request body of send_want_request.                      *)
(***************************************************************************)
Str_want == <<119, 97, 110, 116, 32>>                               \* "want "
Str_have == <<104, 97, 118, 101, 32>>                               \* "have "
Str_done == <<100, 111, 110, 101>>                                  \* "done"
Str_NAK == <<78, 65, 75>>                                           \* "NAK"

WantPkt_to_string(object_id) == Str_want \o HexEncode(object_id)
HavePkt_to_string(object_id) == Str_have \o HexEncode(object_id)

\* send_want_request, without capabilities: the pkt-lines of the body, in order.
\* haves is an Option: <<>> for None, <<list>> for Some(list).
WantRequestLines(wants, haves, is_done) ==
    [i \in 1..Len(wants) |-> StringDataPkt(WantPkt_to_string(wants[i]))]
    \o <<FlushPkt>>
    \o (IF haves = <<>> THEN <<>>
        ELSE [i \in 1..Len(haves[1]) |-> StringDataPkt(HavePkt_to_string(haves[1][i]))]
             \o <<FlushPkt>>)
    \o <<IF is_done THEN StringDataPkt(Str_done) ELSE FlushPkt>>

\* send_pkt_line_request: the body is the lines' bytes, concatenated.
WantRequestBody(wants, haves, is_done) ==
    LET lines == WantRequestLines(wants, haves, is_done)
    IN Concat([i \in 1..Len(lines) |-> PktLine_to_bytes(lines[i])])

\* send_pkt_line_request with the last line sent first.
send_pkt_line_request_last_first(content, last_pkt_line) ==
    Concat([i \in 1..(Len(content) + 1) |->
               PktLine_to_bytes((<<IF last_pkt_line = <<>> THEN FlushPkt
                                   ELSE last_pkt_line[1]>> \o content)[i])])

\* send_pkt_line_request: the body posted to git-upload-pack, the lines of
\* content and then last_pkt_line, or a FlushPkt when it is None.
send_pkt_line_request(content, last_pkt_line) ==
    Concat([i \in 1..(Len(content) + 1) |->
               PktLine_to_bytes((content \o <<IF last_pkt_line = <<>> THEN FlushPkt
                                               ELSE last_pkt_line[1]>>)[i])])

\* The first line of send_want_request: the first want, with the capabilities
\* after it when there are some.  capabilities is an Option of a list.
WantFirstLine(first_want, capabilities) ==
    IF capabilities = <<>> THEN StringDataPkt(WantPkt_to_string(first_want))
    ELSE StringDataPkt(WantPkt_to_string(first_want) \o <<SP>>
                       \o Join(capabilities[1], SP))

\* content of send_want_request, for wants that are not empty.
WantContent(wants, haves, capabilities) ==
    <<WantFirstLine(wants[1], capabilities)>>
    \o [i \in 1..(Len(wants) - 1) |-> StringDataPkt(WantPkt_to_string(wants[i + 1]))]
    \o <<FlushPkt>>
    \o (IF haves = <<>> THEN <<>>
        ELSE [i \in 1..Len(haves[1]) |-> StringDataPkt(HavePkt_to_string(haves[1][i]))]
             \o <<FlushPkt>>)

\* send_want_request up to the request it posts: the body, or the error for
\* an empty list of wants.
send_want_request(wants, haves, capabilities, is_done) ==
    IF wants = <<>>
    THEN Err("send_want_request failed: wants must contain at least one element")
    ELSE Ok(send_pkt_line_request(WantContent(wants, haves, capabilities),
                IF is_done THEN <<StringDataPkt(Str_done)>> ELSE <<>>))

(***************************************************************************)
(* The remote repository the server answers from.                          *)
(*   blobs   "hi", and "hi!" and "hi!!" sent as ref-deltas                 *)
(*   trees   root = {f: "hi"}, sub = {g: "hi"},                            *)
(*           dev = {d/: sub, x*: "hi", y@: "hi"}, old = {a.b: "hi", a/: sub}*)
(*   commits main -> root, dev -> dev tree (parent main)                   *)
(***************************************************************************)
Blob1 == <<104, 105>>
Blob2 == <<104, 105, 33>>
Blob3 == <<104, 105, 33, 33>>

ShaOfBlob(b) == GitObject_sha1("blob", b)

TreeSub == Tree_new(<<TreeEntry("Regular", <<103>>, ShaOfBlob(Blob1))>>)
TreeRoot == Tree_new(<<TreeEntry("Regular", <<102>>, ShaOfBlob(Blob1))>>)
TreeDev == Tree_new(<<TreeEntry("Executable", <<120>>, ShaOfBlob(Blob1)),
                      TreeEntry("Symbolic", <<121>>, ShaOfBlob(Blob1)),
                      TreeEntry("Directory", <<100>>, GitObject_sha1("tree", TreeSub))>>)

\* The tree old as Git writes it: a directory sorts as if its name ended in
\* "/", so the file a.b comes before the directory a.
TreeOldBody ==
    TreeEntry_encode(TreeEntry("Regular", <<97, 46, 98>>, ShaOfBlob(Blob1)))
    \o TreeEntry_encode(TreeEntry("Directory", <<97>>, GitObject_sha1("tree", TreeSub)))

Actor == CommitActor(<<65>>, <<101>>, 7, <<43, 48, 49>>)

CommitMain == Commit(GitObject_sha1("tree", TreeRoot), <<>>, Actor, <<Actor>>, <<109, 10>>)
ShaMain == GitObject_sha1("commit", CommitMain)
CommitDev == Commit(GitObject_sha1("tree", TreeDev), <<ShaMain>>, Actor, <<Actor>>, <<100, 10>>)
ShaDev == GitObject_sha1("commit", CommitDev)

\* The chunks a pack is made of: the objects above and the two ref-deltas; and
\* a tag (type 4, which the reader does not support).
ObjectChunks ==
    << RawObject(1, Commit_encode_body(CommitMain)),
       RawObject(2, Tree_encode_body(TreeRoot)),
       RawObject(2, Tree_encode_body(TreeSub)),
       RawObject(3, Blob1),
       RawObject(1, Commit_encode_body(CommitDev)),
       RawObject(2, Tree_encode_body(TreeDev)),
       RawObject(2, TreeOldBody) >>

TagChunk == RawObject(4, <<>>)

Delta2 == RawRefDelta(ShaOfBlob(Blob1), 2, 3, <<CopyInstr(0, 2), InsertInstr(<<33>>)>>)
Delta3 == RawRefDelta(ShaOfBlob(Blob2), 3, 4, <<CopyInstr(0, 3), InsertInstr(<<33>>)>>)

\* Ref-deltas on a tree and on a commit: the tree sub with its entry renamed
\* to "h", the commit main with the message "n\n"; and one on the commit main
\* that puts a header line "x y" before its body and gives the length of the
\* base as its target size.
DeltaTree ==
    RawRefDelta(GitObject_sha1("tree", TreeSub),
                Len(Tree_encode_body(TreeSub)), Len(Tree_encode_body(TreeSub)),
                <<CopyInstr(0, Len(Tree_encode_body(TreeSub)) - 22), InsertInstr(<<104>>),
                  CopyInstr(Len(Tree_encode_body(TreeSub)) - 21, 21)>>)
DeltaCommit ==
    RawRefDelta(ShaMain,
                Len(Commit_encode_body(CommitMain)), Len(Commit_encode_body(CommitMain)),
                <<CopyInstr(0, Len(Commit_encode_body(CommitMain)) - 2),
                  InsertInstr(<<110, 10>>)>>)
DeltaHeader ==
    RawRefDelta(ShaMain,
                Len(Commit_encode_body(CommitMain)), Len(Commit_encode_body(CommitMain)),
                <<InsertInstr(<<120, 32, 121, 10>>),
                  CopyInstr(0, Len(Commit_encode_body(CommitMain)))>>)

DeltaOrders ==
    { <<>>, <<Delta2>>, <<Delta3>>, <<Delta2, Delta3>>, <<Delta3, Delta2>>,
      <<DeltaTree>>, <<DeltaCommit>>, <<DeltaHeader>> }

RECURSIVE PickByIndex(_, _, _)
PickByIndex(seq, i, I) ==
    IF i > Len(seq) THEN <<>>
    ELSE (IF i \in I THEN <<seq[i]>> ELSE <<>>) \o PickByIndex(seq, i + 1, I)

\* The packs the server may answer with: any set of the object chunks and any
\* order of the deltas, of at most MaxPack chunks in all.  clone partitions
\* the chunks into objects and deltas, keeping the order of each.
Packs ==
    {PickByIndex(ObjectChunks, 1, I) \o ds :
        I \in {J \in SUBSET (1..Len(ObjectChunks)) : Cardinality(J) <= MaxPack},
        ds \in DeltaOrders}

PacksInBound ==
    {p \in Packs : Len(p) <= MaxPack}
    \cup {<<ObjectChunks[i], TagChunk>> : i \in 1..Len(ObjectChunks)}

\* The answers to the upload-pack request, when it does not fail: a first
\* line that is not NAK, or NAK and a pack.
NakLine == PktLine_to_bytes(StringDataPkt(Str_NAK))
WantResponses ==
    {[line |-> <<48, 48, 48, 48>>, raws |-> <<>>],
     [line |-> <<48, 48, 48, 49>>, raws |-> <<>>]}
    \cup {[line |-> NakLine, raws |-> p] : p \in PacksInBound}

(***************************************************************************)
(* GitClient::ref_discovery on the bytes of the answer.                    *)
(***************************************************************************)
Str_service ==                                    \* "# service=git-upload-pack"
    <<35, 32, 115, 101, 114, 118, 105, 99, 101, 61, 103, 105, 116, 45, 117,
      112, 108, 111, 97, 100, 45, 112, 97, 99, 107>>

\* GitRef::read: the hex digits before the first space are the object id,
\* 20 bytes of it; everything after that space is the name.
GitRef_read(chars) ==
    LET parts == TakeWhileNot(chars, SP)
        object_id == DecodeSha(parts.taken)
    IN IF object_id.ok
       THEN Ok([object_id |-> object_id.val, name |-> parts.rest])
       ELSE Err("GitRef::read")

\* GitCapabilities::read
GitCapabilities_read(chars) == Split(chars, SP)

\* Iterator::next of PktLine::read_many: None once the input is used up.
PktLine_next(bytes) ==
    IF bytes = <<>> THEN [some |-> FALSE, res |-> Err("None"), rest |-> <<>>]
    ELSE LET r == PktLine_read(bytes)
         IN [some |-> TRUE, res |-> r.res, rest |-> r.rest]

DiscoveryEnd(outcome, refs, head_object_id, capabilities) ==
    [outcome |-> outcome, refs |-> refs, head_object_id |-> head_object_id,
     capabilities |-> capabilities]

DiscoveryFailed(outcome) == DiscoveryEnd(outcome, EmptyMap, <<>>, <<>>)

\* The frames up to the first Ok(FlushPkt) or to the end of the input,
\* collected into the ref map; the first Err, frame that is not a
\* StringDataPkt or line GitRef::read rejects ends the collection.
RECURSIVE CollectRefs(_, _)
CollectRefs(bytes, refs) ==
    LET item == PktLine_next(bytes)
    IN IF ~item.some THEN Ok(refs)
       ELSE IF item.res.ok /\ item.res.val = FlushPkt THEN Ok(refs)
       ELSE IF ~item.res.ok THEN Err("frame")
       ELSE IF item.res.val.kind # "StringDataPkt" THEN Err("expected string data pkt")
       ELSE LET git_ref == GitRef_read(item.res.val.data)
            IN IF ~git_ref.ok THEN Err("GitRef::read")
               ELSE CollectRefs(item.rest,
                                Put(refs, git_ref.val.name, git_ref.val.object_id))

\* The head line and what follows it.
DiscoveryHead(head_item) ==
    IF ~head_item.some \/ ~head_item.res.ok THEN DiscoveryFailed("err")
    ELSE IF head_item.res.val.kind # "StringDataPkt" THEN DiscoveryFailed("err")
    ELSE LET head_line == TakeWhileNot(head_item.res.val.data, NUL)
             head == GitRef_read(head_line.taken)
         IN IF ~head.ok THEN DiscoveryFailed("err")
            ELSE IF head.val.name # Str_HEAD THEN DiscoveryFailed("err")
            ELSE LET refs == CollectRefs(head_item.rest, EmptyMap)
                 IN IF ~refs.ok THEN DiscoveryFailed("err")
                    ELSE DiscoveryEnd("ok", refs.val, head.val.object_id,
                                      GitCapabilities_read(head_line.rest))

\* The two assertions on the first two frames, then the head line.
DiscoveryFlush(flush_item) ==
    IF ~(flush_item.some /\ flush_item.res.ok /\ flush_item.res.val = FlushPkt)
    THEN DiscoveryFailed("panic")
    ELSE DiscoveryHead(PktLine_next(flush_item.rest))

GitClient_ref_discovery(bytes) ==
    LET service_item == PktLine_next(bytes)
    IN IF ~(/\ service_item.some
            /\ service_item.res.ok
            /\ service_item.res.val = StringDataPkt(Str_service))
       THEN DiscoveryFailed("panic")
       ELSE DiscoveryFlush(PktLine_next(service_item.rest))

\* The answers to ref discovery, when it does not fail: HEAD's sha and the
\* ref map.
RefMain == <<114, 101, 102, 115, 47, 104, 101, 97, 100, 115, 47, 109, 97, 105, 110>>
RefDev == <<114, 101, 102, 115, 47, 104, 101, 97, 100, 115, 47, 100, 101, 118>>
RefNames == {RefMain, RefDev}
RefMaps ==
    {r \in UNION {[D -> {ShaMain, ShaDev}] : D \in SUBSET RefNames} :
        RefMain \in DOMAIN r => r[RefMain] = ShaMain}

RefResponses ==
    {[refs |-> r, head_object_id |-> h] : r \in RefMaps, h \in {ShaMain, ShaDev}}

\* The bytes of an answer: the service line, a flush, the head line with its
\* capabilities, a line for each ref, a flush.
Str_caps == <<120, 32, 121>>                                          \* "x y"
RefLine(object_id, name) ==
    PktLine_to_bytes(StringDataPkt(HexEncode(object_id) \o <<SP>> \o name))
HeadLine(object_id, name) ==
    PktLine_to_bytes(StringDataPkt(
        HexEncode(object_id) \o <<SP>> \o name \o <<NUL>> \o Str_caps))
ServiceLines ==
    PktLine_to_bytes(StringDataPkt(Str_service)) \o PktLine_to_bytes(FlushPkt)
RefLines(refs) ==
    (IF RefMain \in DOMAIN refs THEN RefLine(refs[RefMain], RefMain) ELSE <<>>)
    \o (IF RefDev \in DOMAIN refs THEN RefLine(refs[RefDev], RefDev) ELSE <<>>)
DiscoveryBytes(resp) ==
    ServiceLines \o HeadLine(resp.head_object_id, Str_HEAD)
    \o RefLines(resp.refs) \o PktLine_to_bytes(FlushPkt)

\* Answers that leave the prescribed order, each in one place.
OneRef == [r \in {RefMain} |-> ShaMain]
BadLen == <<122, 122, 122, 122>>                                      \* "zzzz"
OffOrderResponses ==
    {<<>>,
     PktLine_to_bytes(StringDataPkt(Str_HEAD)) \o PktLine_to_bytes(FlushPkt),
     PktLine_to_bytes(StringDataPkt(Str_service))
        \o HeadLine(ShaMain, Str_HEAD) \o PktLine_to_bytes(FlushPkt),
     ServiceLines,
     ServiceLines \o BadLen,
     ServiceLines \o PktLine_to_bytes(BinaryDataPkt(Str_HEAD)),
     ServiceLines \o HeadLine(ShaMain, RefMain) \o PktLine_to_bytes(FlushPkt),
     ServiceLines \o HeadLine(<<1, 2>>, Str_HEAD) \o PktLine_to_bytes(FlushPkt),
     ServiceLines \o HeadLine(ShaMain, Str_HEAD) \o BadLen
        \o PktLine_to_bytes(FlushPkt),
     ServiceLines \o HeadLine(ShaMain, Str_HEAD)
        \o PktLine_to_bytes(BinaryDataPkt(Str_HEAD)) \o PktLine_to_bytes(FlushPkt),
     ServiceLines \o HeadLine(ShaMain, Str_HEAD) \o RefLine(<<1, 2>>, RefMain)
        \o PktLine_to_bytes(FlushPkt),
     ServiceLines \o HeadLine(ShaMain, Str_HEAD) \o RefLines(OneRef)}

DiscoveryResponses ==
    {DiscoveryBytes(resp) : resp \in RefResponses} \cup OffOrderResponses

(***************************************************************************)
(* GitClient::clone, one action a step.  The target directory is new and   *)
(* empty when clone starts (main creates it).                              *)
(***************************************************************************)
CloneInit ==
    /\ PktOff
    /\ CodecOff
    /\ UnitOff
    /\ pc = "Init"
    /\ failure = "none"
    /\ requests = <<>>
    /\ ref_discovery = NoRefs
    /\ want_response = NoResponse
    /\ chunks = <<>>
    /\ deltas = <<>>
    /\ object_map = EmptyMap
    /\ files = EmptyMap
    /\ dirs = {}
    /\ toWrite = {}
    /\ refsLeft = {}
    /\ stack = <<>>
    /\ response = <<>>

\* The ? operator, and a failed assertion: clone ends here.
Fail_swallowed(cause) == pc' = pc /\ failure' = cause

Fail(cause) == pc' = "Fatal" /\ failure' = cause

\* The order of the steps of clone once the deltas are resolved.
StageAfter_refs_first(stage) ==
    CASE stage = "Resolved" -> "WritingHead"
      [] stage = "WritingHead" -> "WritingRefs"
      [] stage = "WritingRefs" -> "WritingObjects"
      [] stage = "WritingObjects" -> "Checkout"

StageAfter(stage) ==
    CASE stage = "Resolved" -> "WritingObjects"
      [] stage = "WritingObjects" -> "WritingHead"
      [] stage = "WritingHead" -> "WritingRefs"
      [] stage = "WritingRefs" -> "Checkout"

\* ref_discovery: GET info/refs and parse the answer.  A failed assertion
\* and an Err both end clone.
RefDiscovery ==
    /\ pc = "Init"
    /\ requests' = Append(requests, [method |-> "GET", body |-> <<>>])
    /\ \E answered \in BOOLEAN :
          IF answered
          THEN \E bytes \in DiscoveryResponses :
                  LET parsed == GitClient_ref_discovery(bytes)
                  IN /\ response' = <<bytes>>
                     /\ IF parsed.outcome = "ok"
                        THEN /\ ref_discovery' =
                                    [refs |-> parsed.refs,
                                     head_object_id |-> parsed.head_object_id]
                             /\ pc' = "Discovered"
                             /\ failure' = failure
                        ELSE /\ Fail(IF parsed.outcome = "panic"
                                     THEN "ref_discovery: assertion failed"
                                     ELSE "GitClient::clone: failed to fetch refs")
                             /\ UNCHANGED ref_discovery
          ELSE /\ Fail("GitClient::clone: failed to fetch refs")
               /\ UNCHANGED <<ref_discovery, response>>
    /\ UNCHANGED <<pktVars, objVars, unitVars, want_response, chunks, deltas, object_map, files, dirs,
                   toWrite, refsLeft, stack>>

\* send_want_request(vec![WantPkt { head }], None, None, true)
SendWantRequest ==
    /\ pc = "Discovered"
    /\ requests' = Append(requests,
          [method |-> "POST",
           body |-> WantRequestBody(<<ref_discovery.head_object_id>>, <<>>, TRUE)])
    /\ \E answered \in BOOLEAN :
          IF answered
          THEN /\ \E resp \in WantResponses : want_response' = resp
               /\ pc' = "PackReceived"
               /\ failure' = failure
          ELSE /\ Fail("GitClient::clone: failed to send want request")
               /\ UNCHANGED want_response
    /\ UNCHANGED <<pktVars, objVars, unitVars, response, ref_discovery, chunks, deltas, object_map, files, dirs,
                   toWrite, refsLeft, stack>>

\* The NAK line, Packfile::read, the partition and the object map.
ReadPack ==
    /\ pc = "PackReceived"
    /\ \E line \in {PktLine_read(want_response.line).res},
          packfile \in {Packfile_read_chunks(want_response.raws)} :
          IF ~line.ok
          THEN /\ Fail("GitClient::clone: failed to read pkt line")
               /\ UNCHANGED <<chunks, deltas, object_map>>
          ELSE IF ~(line.val.kind = "StringDataPkt" /\ line.val.data = Str_NAK)
          THEN /\ Fail("panic: assertion failed: NAK")
               /\ UNCHANGED <<chunks, deltas, object_map>>
          ELSE IF ~packfile.ok
          THEN /\ Fail("GitClient::clone: failed to read packfile")
               /\ UNCHANGED <<chunks, deltas, object_map>>
          ELSE /\ chunks' = packfile.val
               /\ deltas' = DeltasOf(packfile.val)
               /\ object_map' = CollectObjects(ObjectsOf(packfile.val), EmptyMap)
               /\ pc' = IF DeltasOf(packfile.val) = <<>> THEN "Resolved"
                        ELSE "ObjectsIndexed"
               /\ failure' = failure
    /\ UNCHANGED <<pktVars, objVars, unitVars, response, requests, ref_discovery, want_response, files, dirs,
                   toWrite, refsLeft, stack>>

\* One iteration of `for (obj_name, delta) in deltas`.
ApplyDelta ==
    /\ pc = "ObjectsIndexed"
    /\ deltas # <<>>
    /\ \E r \in {ApplyOneDelta(object_map, Head(deltas))} :
          IF r.ok
          THEN /\ object_map' = r.val
               /\ deltas' = Tail(deltas)
               /\ pc' = IF Tail(deltas) = <<>> THEN "Resolved" ELSE pc
               /\ failure' = failure
          ELSE /\ Fail(r.val)
               /\ UNCHANGED <<object_map, deltas>>
    /\ UNCHANGED <<pktVars, objVars, unitVars, response, requests, ref_discovery, want_response, chunks, files, dirs,
                   toWrite, refsLeft, stack>>

\* The lookups left out: an empty root tree whatever the map holds.
FindHeadTree_unchecked(map, head_object_id) == Ok(<<>>)

\* The HEAD commit and its root tree in the object map.
FindHeadTree(map, head_object_id) ==
    IF head_object_id \notin DOMAIN map
    THEN Err("GitClient::clone: failed to find HEAD object")
    ELSE IF map[head_object_id].type # "commit"
    THEN Err("GitClient::clone: expected HEAD object to be a commit")
    ELSE LET tree_hash == map[head_object_id].val.tree_hash
         IN IF tree_hash \notin DOMAIN map
            THEN Err("GitClient::clone: failed to find tree object")
            ELSE IF map[tree_hash].type # "tree"
            THEN Err("GitClient::clone: expected tree object to be a tree")
            ELSE Ok(map[tree_hash].val)

\* The frames of write_tree still to run: the directory and the entries left.
\* A frame with no entry left has returned.
RECURSIVE Returned(_)
Returned(frames) ==
    IF frames # <<>> /\ Head(frames).entries = <<>> THEN Returned(Tail(frames))
    ELSE frames

\* `for obj in object_map.values()`: the objects clone writes.
ObjectsToWrite(map) == DOMAIN map

\* The head and tree lookups, then create_dir(path/.git).
CreateGitDir ==
    /\ pc = "Resolved"
    /\ LET tree == FindHeadTree(object_map, ref_discovery.head_object_id)
       IN IF ~tree.ok
          THEN /\ Fail(tree.val)
               /\ UNCHANGED <<dirs, toWrite, refsLeft, stack>>
          ELSE \E io_ok \in BOOLEAN :
                  IF io_ok
                  THEN /\ dirs' = dirs \cup {DotGit}
                       /\ toWrite' = ObjectsToWrite(object_map)
                       /\ refsLeft' = DOMAIN ref_discovery.refs
                       /\ stack' = Returned(<<[path |-> <<>>, entries |-> tree.val]>>)
                       /\ pc' = StageAfter(pc)
                       /\ failure' = failure
                  ELSE /\ Fail("GitClient::clone: failed to create .git directory")
                       /\ UNCHANGED <<dirs, toWrite, refsLeft, stack>>
    /\ UNCHANGED <<pktVars, objVars, unitVars, response, requests, ref_discovery, want_response, chunks, deltas,
                   object_map, files>>

\* GitObject::write of one object of the map: the shard directory, then the
\* file, named by the sha the object computes for itself.
WriteObject ==
    /\ pc = "WritingObjects"
    /\ \E k \in toWrite :
          LET obj == object_map[k]
              sha == HexEncode(AnyGitObject_sha1(obj))
              folder_path == get_object_folder_path(sha)
              file_path == get_object_file_path(sha)
          IN \E io \in {"ok", "mkdir fails", "write fails"} :
                CASE io = "ok" /\ folder_path \notin DOMAIN files ->
                        /\ dirs' = dirs \cup PathAndAncestors(folder_path)
                        /\ files' = Put(files, file_path,
                                        PlainFile(GitObject_encode(obj.type, obj.val)))
                        /\ toWrite' = toWrite \ {k}
                        /\ pc' = IF toWrite \ {k} = {} THEN StageAfter(pc) ELSE pc
                        /\ failure' = failure
                  [] io = "write fails" /\ folder_path \notin DOMAIN files ->
                        /\ dirs' = dirs \cup PathAndAncestors(folder_path)
                        /\ Fail("failed to write object file")
                        /\ UNCHANGED <<files, toWrite>>
                  [] OTHER ->
                        /\ Fail("failed to create object folder")
                        /\ UNCHANGED <<files, dirs, toWrite>>
    /\ UNCHANGED <<pktVars, objVars, unitVars, response, requests, ref_discovery, want_response, chunks, deltas,
                   object_map, refsLeft, stack>>

\* GitRefDiscoveryResponse::write, first half: the ref HEAD stands for is any
\* ref whose sha is HEAD's, and .git/HEAD names it.
HeadRefCandidates_any_ref(refs, head_object_id) == DOMAIN refs

HeadRefCandidates(refs, head_object_id) ==
    {name \in DOMAIN refs : refs[name] = head_object_id}

HeadFileContent(head_ref) == Str_ref \o head_ref \o <<LF>>

WriteHead ==
    /\ pc = "WritingHead"
    /\ LET found == HeadRefCandidates(ref_discovery.refs, ref_discovery.head_object_id)
       IN IF found = {}
          THEN /\ Fail("GitRefDiscoveryResponse::write: failed to find HEAD ref in refs")
               /\ UNCHANGED files
          ELSE \E head_ref \in found, io_ok \in BOOLEAN :
                  IF io_ok
                  THEN /\ files' = Put(files, PathJoin(DotGit, Str_HEAD),
                                       PlainFile(HeadFileContent(head_ref)))
                       /\ pc' = StageAfter(pc)
                       /\ failure' = failure
                  ELSE /\ Fail("GitRefDiscoveryResponse::write: failed to write HEAD")
                       /\ UNCHANGED files
    /\ UNCHANGED <<pktVars, objVars, unitVars, response, requests, ref_discovery, want_response, chunks, deltas,
                   object_map, dirs, toWrite, refsLeft, stack>>

\* GitRefDiscoveryResponse::write, second half: one ref of `for (name,
\* object_id) in &self.refs`.
RefFileContent(object_id) == Sha_to_string(object_id)

WriteRef ==
    /\ pc = "WritingRefs"
    /\ \E name \in refsLeft, io \in {"ok", "mkdir fails", "write fails"} :
          LET path == PathJoin(DotGit, name)
          IN CASE io = "ok" ->
                    /\ dirs' = dirs \cup PathAndAncestors(PathParent(path))
                    /\ files' = Put(files, path,
                                    PlainFile(RefFileContent(ref_discovery.refs[name])))
                    /\ refsLeft' = refsLeft \ {name}
                    /\ pc' = IF refsLeft \ {name} = {} THEN StageAfter(pc) ELSE pc
                    /\ failure' = failure
               [] io = "write fails" ->
                    /\ dirs' = dirs \cup PathAndAncestors(PathParent(path))
                    /\ Fail("GitRefDiscoveryResponse::write: failed to write ref")
                    /\ UNCHANGED <<files, refsLeft>>
               [] OTHER ->
                    /\ Fail("GitRefDiscoveryResponse::write: failed to create parent directories")
                    /\ UNCHANGED <<files, dirs, refsLeft>>
    /\ UNCHANGED <<pktVars, objVars, unitVars, response, requests, ref_discovery, want_response, chunks, deltas,
                   object_map, toWrite, stack>>

\* write_tree: one entry of the innermost tree being walked.
CheckoutEntry ==
    /\ pc = "Checkout"
    /\ stack # <<>>
    /\ LET frame == Head(stack)
           entry == Head(frame.entries)
           subpath == PathJoin(frame.path, entry.name)
           after == <<[frame EXCEPT !.entries = Tail(frame.entries)]>> \o Tail(stack)
           known == entry.hash \in DOMAIN object_map
       IN \E io_ok \in BOOLEAN :
          CASE entry.mode = "Directory" ->
                  IF ~io_ok \/ subpath \in dirs \/ subpath \in DOMAIN files
                  THEN /\ Fail("GitClient::write_tree: failed to create directory")
                       /\ UNCHANGED <<files, dirs, stack>>
                  ELSE IF ~known \/ object_map[entry.hash].type # "tree"
                  THEN /\ dirs' = dirs \cup {subpath}
                       /\ Fail("GitClient::write_tree: failed to find tree object")
                       /\ UNCHANGED <<files, stack>>
                  ELSE /\ dirs' = dirs \cup {subpath}
                       /\ stack' = Returned(
                              <<[path |-> subpath,
                                 entries |-> object_map[entry.hash].val]>> \o after)
                       /\ pc' = pc
                       /\ failure' = failure
                       /\ UNCHANGED files
            [] entry.mode = "Regular" ->
                  IF ~known \/ object_map[entry.hash].type # "blob"
                  THEN /\ Fail("GitClient::write_tree: failed to find blob object")
                       /\ UNCHANGED <<files, dirs, stack>>
                  ELSE IF ~io_ok \/ subpath \in dirs
                  THEN /\ Fail("GitClient::write_tree: failed to write blob object")
                       /\ UNCHANGED <<files, dirs, stack>>
                  ELSE /\ files' = Put(files, subpath,
                                       PlainFile(object_map[entry.hash].val))
                       /\ stack' = Returned(after)
                       /\ pc' = pc
                       /\ failure' = failure
                       /\ UNCHANGED dirs
            [] OTHER ->
                  /\ Fail("GitClient::write_tree: unexpected file mode")
                  /\ UNCHANGED <<files, dirs, stack>>
    /\ UNCHANGED <<pktVars, objVars, unitVars, response, requests, ref_discovery, want_response, chunks, deltas,
                   object_map, toWrite, refsLeft>>

\* write_tree has returned: clone returns Ok(()).
Finish ==
    /\ pc = "Checkout"
    /\ stack = <<>>
    /\ pc' = "Done"
    /\ UNCHANGED <<pktVars, objVars, unitVars, response, failure, requests, ref_discovery, want_response, chunks,
                   deltas, object_map, files, dirs, toWrite, refsLeft, stack>>

CloneNext ==
    \/ RefDiscovery
    \/ SendWantRequest
    \/ ReadPack
    \/ ApplyDelta
    \/ CreateGitDir
    \/ WriteObject
    \/ WriteHead
    \/ WriteRef
    \/ CheckoutEntry
    \/ Finish

(***************************************************************************)
(* Harness of the pkt-line codec.                                          *)
(***************************************************************************)
\* The pkt-lines drawn as inputs: text over {'\n', 'a'}, bytes over
\* {'\n', 'a', 0xFF}.
PktText == {LF, 97}
PktByte == {LF, 97, 255}
PktLines ==
    {FlushPkt}
    \cup {StringDataPkt(s) : s \in SeqsUpTo(PktText, MaxPayload)}
    \cup {BinaryDataPkt(b) : b \in SeqsUpTo(PktByte, MaxPayload)}

PktInit ==
    /\ CodecOff
    /\ CloneOff
    /\ UnitOff
    /\ pktStage = "start"
    /\ pktIn \in PktLines
    /\ pktBytes = <<>>
    /\ pktOut = Err("none")

PktEncode ==
    /\ pktStage = "start"
    /\ pktBytes' = PktLine_to_bytes(pktIn)
    /\ pktStage' = "encoded"
    /\ UNCHANGED <<pktIn, pktOut, objVars, cloneVars, unitVars>>

PktDecode ==
    /\ pktStage = "encoded"
    /\ pktOut' = PktLine_read(pktBytes).res
    /\ pktStage' = "decoded"
    /\ UNCHANGED <<pktIn, pktBytes, objVars, cloneVars, unitVars>>

PktNext == PktEncode \/ PktDecode

(***************************************************************************)
(* The working directory and the loose store: hash-object, write-tree,     *)
(* commit-tree and the object write of clone, on one repository.           *)
(***************************************************************************)
\* A node of the working directory as lstat sees it.  exec: some execute bit
\* of the permissions is set.  to: where a symbolic link points.
WtFile(content, exec) == [kind |-> "file", content |-> content, exec |-> exec, to |-> <<>>]
WtDir == [kind |-> "dir", content |-> <<>>, exec |-> TRUE, to |-> <<>>]
WtSymlink(to) == [kind |-> "symlink", content |-> <<>>, exec |-> TRUE, to |-> to]
WtFifo == [kind |-> "fifo", content |-> <<>>, exec |-> FALSE, to |-> <<>>]

\* Path::file_name
PathName(path) ==
    LET at == {i \in 1..Len(path) : path[i] = SLASH}
    IN IF at = {} THEN path
       ELSE SubSeq(path, (CHOOSE i \in at : \A j \in at : j <= i) + 1, Len(path))

\* Path resolution as stat does it, every symbolic link on the way followed:
\* <<p>> where p is the path of the node reached, <<>> when there is none.
\* The working directory itself is the path <<>>.
RECURSIVE Canon(_, _)
Canon(wt, path) ==
    IF path = <<>> THEN << <<>> >>
    ELSE LET parent == Canon(wt, PathParent(path))
         IN IF parent = <<>> THEN <<>>
            ELSE LET p == PathJoin(parent[1], PathName(path))
                 IN IF p \notin DOMAIN wt THEN <<>>
                    ELSE IF wt[p].kind = "symlink" THEN Canon(wt, wt[p].to)
                    ELSE <<p>>

\* Path::metadata: the node a path resolves to.
Metadata(wt, path) ==
    LET c == Canon(wt, path)
    IN IF c = <<>> THEN Err("NotFound")
       ELSE IF c[1] = <<>> THEN Ok(WtDir)
       ELSE Ok(wt[c[1]])

Path_is_file(wt, path) == Metadata(wt, path).ok /\ Metadata(wt, path).val.kind = "file"
Path_is_dir(wt, path) == Metadata(wt, path).ok /\ Metadata(wt, path).val.kind = "dir"

\* impl From<fs::Metadata> for FileMode
FileMode_from(metadata) ==
    IF metadata.kind = "dir" THEN "Directory"
    ELSE IF metadata.exec THEN "Executable"
    ELSE IF metadata.kind = "symlink" THEN "Symbolic"
    ELSE "Regular"

\* The names read_dir lists for a directory path.
ReadDir(wt, path) ==
    LET c == Canon(wt, path)
    IN IF c = <<>> THEN {}
       ELSE {PathName(p) : p \in {q \in DOMAIN wt : PathParent(q) = c[1]}}

\* read_dir yields the entries in an order the file system chooses: the model
\* draws ascending or descending order of name.
RECURSIVE ListNames(_, _)
ListNames(names, descending) ==
    IF names = {} THEN <<>>
    ELSE LET first == CHOOSE n \in names :
                 \A m \in names \ {n} : IF descending THEN LexLess(m, n) ELSE LexLess(n, m)
         IN <<first>> \o ListNames(names \ {first}, descending)

FileTreeNode(kind, path, entries) == [kind |-> kind, path |-> path, entries |-> entries]

\* FileTree::new: the entries vector.
RECURSIVE FileTree_new(_, _, _)
FileTree_new(wt, path, descending) ==
    LET listed == ListNames(ReadDir(wt, path), descending)
        Node(name) ==
            IF name = DotGit THEN <<>>
            ELSE IF Path_is_file(wt, PathJoin(path, name))
            THEN <<FileTreeNode("File", PathJoin(path, name), <<>>)>>
            ELSE IF Path_is_dir(wt, PathJoin(path, name))
            THEN <<FileTreeNode("Directory", PathJoin(path, name),
                                FileTree_new(wt, PathJoin(path, name), descending))>>
            ELSE <<>>
    IN Concat([i \in 1..Len(listed) |-> Node(listed[i])])

\* TreeEntry::new for an object's sha and the path it was made from.
TreeEntry_new(wt, sha, path) ==
    LET metadata == Metadata(wt, path)
    IN IF ~metadata.ok THEN Err("failed to create tree entry: failed to get metadata")
       ELSE Ok(TreeEntry(FileMode_from(metadata.val), PathName(path), sha))

\* The store: the files and the directories under .git.
Store(fs, ds) == [files |-> fs, dirs |-> ds]
Written(ok, store) == [ok |-> ok, store |-> store]

\* GitObject::write with the object filed under the sha of its body alone.
GitObject_write_body_sha(type, val, store, io) ==
    LET sha == HexEncode(Sha1(EncodeBody(type, val)))
    IN Written(TRUE, Store(Put(store.files, get_object_file_path(sha),
                               GitObject_encode(type, val)),
                           store.dirs \cup PathAndAncestors(get_object_folder_path(sha))))

\* GitObject::write.  io: whether create_dir_all and fs::write succeed.
GitObject_write(type, val, store, io) ==
    LET sha == HexEncode(GitObject_sha1(type, val))
        folder_path == get_object_folder_path(sha)
        file_path == get_object_file_path(sha)
        made == Store(store.files, store.dirs \cup PathAndAncestors(folder_path))
    IN IF folder_path \notin store.dirs /\ folder_path \notin DOMAIN store.files
       THEN IF io = "mkdir fails" THEN Written(FALSE, store)
            ELSE IF io = "write fails" \/ file_path \in made.dirs THEN Written(FALSE, made)
            ELSE Written(TRUE, Store(Put(made.files, file_path, GitObject_encode(type, val)),
                                     made.dirs))
       ELSE IF folder_path \notin store.dirs THEN Written(FALSE, store)
       ELSE IF io = "write fails" \/ file_path \in store.dirs THEN Written(FALSE, store)
       ELSE Written(TRUE, Store(Put(store.files, file_path, GitObject_encode(type, val)),
                                store.dirs))

\* if let Some(parent_path) = parent_path { blob.write(parent_path)? } without
\* the write.
WriteBlob_skipped(parent_path, blob, store, io) == Written(TRUE, store)

\* if let Some(parent_path) = parent_path { blob.write(parent_path)? }
WriteBlob(parent_path, blob, store, io) ==
    IF parent_path = <<>> THEN Written(TRUE, store)
    ELSE GitObject_write("blob", blob, store, io)

\* if let Some(parent_path) = parent_path { tree_object.write(parent_path)? }
WriteTree(parent_path, tree, store, io) ==
    IF parent_path = <<>> THEN Written(TRUE, store)
    ELSE GitObject_write("tree", tree, store, io)

IoOutcomes == {"ok", "mkdir fails", "write fails"}

\* The working directories the commands run in: the file f, the directory d
\* with the file d/g or no d, a symbolic link or a fifo l or no l, and .git.
Name_f == <<102>>
Name_d == <<100>>
Name_g == <<103>>
Name_l == <<108>>
Name_x == <<120>>

WtContents == {c \in SeqsUpTo({104}, MaxBlob) : Len(c) = MaxBlob}

WtChoices_f == {Put(EmptyMap, Name_f, WtFile(c, e)) : c \in WtContents, e \in BOOLEAN}
WtChoices_d ==
    { EmptyMap,
      Put(Put(EmptyMap, Name_d, WtDir), PathJoin(Name_d, Name_g), WtFile(<<103>>, FALSE)) }
WtChoices_l ==
    {EmptyMap, Put(EmptyMap, Name_l, WtFifo)}
    \cup {Put(EmptyMap, Name_l, WtSymlink(t)) : t \in {Name_f, Name_d, Name_x}}
WtChoices_git == {Put(EmptyMap, DotGit, WtDir)}

Merge(a, b) == [k \in DOMAIN a \cup DOMAIN b |-> IF k \in DOMAIN a THEN a[k] ELSE b[k]]

Worktrees ==
    {Merge(Merge(f, d), Merge(l, g)) :
        f \in WtChoices_f, d \in WtChoices_d, l \in WtChoices_l, g \in WtChoices_git}

StInit ==
    /\ PktOff
    /\ CodecOff
    /\ CloneOff
    /\ ValOff
    /\ RdOff
    /\ DlOff
    /\ PkOff
    /\ SrOff
    /\ FnOff
    /\ stPc = "idle"
    /\ stCmd = "none"
    /\ stRoot = <<>>
    /\ worktree \in Worktrees
    /\ stFiles = EmptyMap
    /\ stDirs = IF DotGit \in DOMAIN worktree THEN {DotGit} ELSE {}
    /\ stStack = <<>>
    /\ stOut = Outcome("none", <<>>)
    /\ stCount = 0

Frame(path, pending, entries) == [path |-> path, pending |-> pending, entries |-> entries]

StFail(cmd, store, why) ==
    /\ stPc' = "idle"
    /\ stCmd' = cmd
    /\ stStack' = <<>>
    /\ stFiles' = store.files
    /\ stDirs' = store.dirs
    /\ stOut' = Outcome("err", why)

\* write-tree: FileTree::new(current_dir) and the call of FileTree::write(".").
StWriteTree ==
    /\ stPc = "idle"
    /\ stCount < MaxCommands
    /\ \E descending \in BOOLEAN :
          stStack' = <<Frame(<<>>, FileTree_new(worktree, <<>>, descending), <<>>)>>
    /\ stPc' = "walking"
    /\ stCmd' = "write-tree"
    /\ stRoot' = << <<>> >>
    /\ stOut' = Outcome("none", <<>>)
    /\ stCount' = stCount + 1
    /\ UNCHANGED <<worktree, stFiles, stDirs, pktVars, objVars, cloneVars, valVars, rdVars, dlVars, pkVars, srVars, fnVars>>

\* hash-object -w <path>: AnyGitObject::generate, then try_as_blob and write.
StHashObject ==
    /\ stPc = "idle"
    /\ stCount < MaxCommands
    /\ stCount' = stCount + 1
    /\ stRoot' = <<>>
    /\ \E path \in {Name_f, Name_d, Name_l}, io \in IoOutcomes, descending \in BOOLEAN :
          IF Path_is_file(worktree, path)
          THEN LET blob == worktree[Canon(worktree, path)[1]].content
                   w == GitObject_write("blob", blob, Store(stFiles, stDirs), io)
               IN /\ stFiles' = w.store.files
                  /\ stDirs' = w.store.dirs
                  /\ stOut' = IF w.ok THEN Outcome("ok", GitObject_sha1("blob", blob))
                              ELSE Outcome("err", "failed to write object file for blob")
                  /\ stPc' = "idle"
                  /\ stCmd' = "hash-object"
                  /\ stStack' = <<>>
          ELSE IF Path_is_dir(worktree, path)
          THEN /\ stStack' = <<Frame(path, FileTree_new(worktree, path, descending), <<>>)>>
               /\ stPc' = "walking"
               /\ stCmd' = "hash-object"
               /\ stOut' = Outcome("none", <<>>)
               /\ UNCHANGED <<stFiles, stDirs>>
          ELSE StFail("hash-object", Store(stFiles, stDirs),
                      "failed to generate git object: unsupported file type")
    /\ UNCHANGED <<worktree, pktVars, objVars, cloneVars, valVars, rdVars, dlVars, pkVars, srVars, fnVars>>

\* parse_tree_object at a File entry: read the file, write the blob when
\* there is a parent_path, make the tree entry.
StFile ==
    /\ stPc = "walking"
    /\ Head(stStack).pending # <<>>
    /\ Head(Head(stStack).pending).kind = "File"
    /\ LET frame == Head(stStack)
           path == Head(frame.pending).path
           blob == worktree[Canon(worktree, path)[1]].content
           entry == TreeEntry_new(worktree, GitObject_sha1("blob", blob), path)
       IN \E io \in IoOutcomes :
             \E w \in {WriteBlob(stRoot, blob, Store(stFiles, stDirs), io)} :
                IF ~w.ok
                THEN StFail(stCmd, w.store, "failed to write object file for blob")
                ELSE /\ stFiles' = w.store.files
                     /\ stDirs' = w.store.dirs
                     /\ stStack' = <<Frame(frame.path, Tail(frame.pending),
                                           Append(frame.entries, entry.val))>>
                                   \o Tail(stStack)
                     /\ UNCHANGED <<stPc, stCmd, stOut>>
    /\ UNCHANGED <<stRoot, worktree, stCount, pktVars, objVars, cloneVars, valVars, rdVars, dlVars, pkVars, srVars, fnVars>>

\* parse_tree_object at a Directory entry: the recursive call.
StEnterDir ==
    /\ stPc = "walking"
    /\ Head(stStack).pending # <<>>
    /\ Head(Head(stStack).pending).kind = "Directory"
    /\ stStack' = <<Frame(Head(Head(stStack).pending).path,
                          Head(Head(stStack).pending).entries, <<>>)>> \o stStack
    /\ UNCHANGED <<stPc, stCmd, stRoot, worktree, stFiles, stDirs, stOut, stCount,
                   pktVars, objVars, cloneVars, valVars, rdVars, dlVars, pkVars, srVars, fnVars>>

\* The end of parse_tree_object: Tree::new, the write when there is a
\* parent_path, and the return: into the caller's TreeEntry::new, or out of
\* FileTree::write or FileTree::tree_object.
StFinishTree ==
    /\ stPc = "walking"
    /\ Head(stStack).pending = <<>>
    /\ LET frame == Head(stStack)
           tree_object == Tree_new(frame.entries)
           sha == GitObject_sha1("tree", tree_object)
       IN \E io \in IoOutcomes :
             \E w \in {WriteTree(stRoot, tree_object, Store(stFiles, stDirs), io)} :
                IF ~w.ok THEN StFail(stCmd, w.store, "failed to write tree object")
                ELSE /\ stFiles' = w.store.files
                     /\ stDirs' = w.store.dirs
                     /\ IF Tail(stStack) = <<>>
                        THEN /\ stStack' = <<>>
                             /\ stPc' = "idle"
                             /\ stOut' = IF stCmd = "write-tree" THEN Outcome("ok", sha)
                                         ELSE Outcome("err", "expected it to be a blob")
                        ELSE LET caller == Head(Tail(stStack))
                                 entry == TreeEntry_new(worktree, sha, frame.path)
                             IN /\ stStack' = <<Frame(caller.path, Tail(caller.pending),
                                                      Append(caller.entries, entry.val))>>
                                              \o Tail(Tail(stStack))
                                /\ UNCHANGED <<stPc, stOut>>
                     /\ UNCHANGED stCmd
    /\ UNCHANGED <<stRoot, worktree, stCount, pktVars, objVars, cloneVars, valVars, rdVars, dlVars, pkVars, srVars, fnVars>>

\* commit-tree <tree> -p <parent> -m <message>
Str_JohnDoe == <<74, 111, 104, 110, 32, 68, 111, 101>>
MockActor == CommitActor(Str_JohnDoe, <<106, 64, 99>>, 0, <<43, 48, 48, 48, 48>>)

StCommitTree ==
    /\ stPc = "idle"
    /\ stCount < MaxCommands
    /\ stCount' = stCount + 1
    /\ \E tree_hash \in {ShaA}, parent_hash \in {ShaA, ShaB},
          message \in {<<109>>}, io \in IoOutcomes :
          LET commit == Commit_new(tree_hash, <<parent_hash>>, MockActor, <<>>,
                                   message \o <<LF>>)
              w == GitObject_write("commit", commit, Store(stFiles, stDirs), io)
          IN /\ stFiles' = w.store.files
             /\ stDirs' = w.store.dirs
             /\ stOut' = IF w.ok THEN Outcome("ok", GitObject_sha1("commit", commit))
                         ELSE Outcome("err", "failed to write commit object")
    /\ stPc' = "idle"
    /\ stCmd' = "commit-tree"
    /\ stStack' = <<>>
    /\ UNCHANGED <<stRoot, worktree, pktVars, objVars, cloneVars, valVars, rdVars, dlVars, pkVars, srVars, fnVars>>

\* clone's obj.write(&path) for an object decoded from a pack.
PackObjects ==
    <<AnyObj("blob", Blob1), AnyObj("tree", Tree_decode_body(TreeOldBody).val),
      AnyObj("commit", CommitMain)>>

StWriteAny ==
    /\ stPc = "idle"
    /\ stCount < MaxCommands
    /\ stCount' = stCount + 1
    /\ \E i \in DOMAIN PackObjects, io \in IoOutcomes :
          LET obj == PackObjects[i]
              w == GitObject_write(obj.type, obj.val, Store(stFiles, stDirs), io)
          IN /\ stFiles' = w.store.files
             /\ stDirs' = w.store.dirs
             /\ stOut' = IF w.ok THEN Outcome("ok", AnyGitObject_sha1(obj))
                         ELSE Outcome("err", "GitClient::clone: failed to write object")
    /\ stPc' = "idle"
    /\ stCmd' = "clone"
    /\ stStack' = <<>>
    /\ UNCHANGED <<stRoot, worktree, pktVars, objVars, cloneVars, valVars, rdVars, dlVars, pkVars, srVars, fnVars>>

StNext ==
    \/ StWriteTree
    \/ StHashObject
    \/ StFile
    \/ StEnterDir
    \/ StFinishTree
    \/ StCommitTree
    \/ StWriteAny

(***************************************************************************)
(* Delta instruction harness: the bytes of a Copy instruction as Git lays  *)
(* it out, followed by an Insert, are read and applied to a base.          *)
(***************************************************************************)
\* The byte a Copy instruction carries for bit i of its flags: zero or not.
DataByte(i) == {0, i + 1}

\* The bytes of the set bits among lo..hi of flags, in order, each drawn from
\* its DataByte.
RECURSIVE SelectedBytes(_, _, _)
SelectedBytes(flags, i, hi) ==
    IF i > hi THEN {<<>>}
    ELSE IF (flags \div (2 ^ i)) % 2 = 0 THEN SelectedBytes(flags, i + 1, hi)
    ELSE {<<b>> \o t : b \in DataByte(i), t \in SelectedBytes(flags, i + 1, hi)}

TrailingInsert == <<1, 97>>

CopyThenInsert ==
    UNION {{<<128 + flags>> \o sel \o TrailingInsert : sel \in SelectedBytes(flags, 0, 6)} :
              flags \in 0..127}

DlInit ==
    /\ PktOff
    /\ CodecOff
    /\ CloneOff
    /\ ValOff
    /\ RdOff
    /\ StOff
    /\ PkOff
    /\ SrOff
    /\ FnOff
    /\ dlStage = "start"
    /\ dlBytes \in CopyThenInsert
    /\ dlSource = <<1, 2, 3, 4, 5, 6, 7, 8>>
    /\ dlInstrs = Err("none")
    /\ dlOut = Err("none")

DlRead ==
    /\ dlStage = "start"
    /\ dlInstrs' = DeltaInstruction_read_many(dlBytes)
    /\ dlStage' = "read"
    /\ UNCHANGED <<dlBytes, dlSource, dlOut, pktVars, objVars, cloneVars, valVars, rdVars,
                   stVars, pkVars, srVars, fnVars>>

DlApply ==
    /\ dlStage = "read"
    /\ dlInstrs.ok
    /\ dlOut' = DeltaInstruction_apply(dlInstrs.val, dlSource)
    /\ dlStage' = "applied"
    /\ UNCHANGED <<dlBytes, dlSource, dlInstrs, pktVars, objVars, cloneVars, valVars, rdVars,
                   stVars, pkVars, srVars, fnVars>>

DlNext == DlRead \/ DlApply

(***************************************************************************)
(* Packs as bytes for Packfile::read: the header, a declared object count, *)
(* objects laid out one after the other, bytes between the last object and *)
(* the trailer, the 20-byte trailer.                                       *)
(***************************************************************************)
\* The size bytes after the first one, seven bits each, low bits first.
RECURSIVE SizeTail(_)
SizeTail(n) ==
    IF n < 128 THEN <<n>> ELSE <<128 + (n % 128)>> \o SizeTail(n \div 128)

\* The object header of a pack entry: type and the low four bits of the size
\* in the first byte.
EntryHeader(code, size) ==
    IF size < 16 THEN <<code * 16 + size>>
    ELSE <<128 + code * 16 + (size % 16)>> \o SizeTail(size \div 16)

PlainEntry(code, body) == EntryHeader(code, Len(body)) \o compress(body)

RefDeltaEntry(obj_name, delta) ==
    EntryHeader(7, Len(delta)) \o obj_name \o compress(delta)

LongBlob == [i \in 1..17 |-> 97]

\* Pack entries: three blobs, the longest with a two-byte header, and a
\* ref-delta on ShaA with sizes 8 and 1 and one insert.
PackEntries ==
    { PlainEntry(3, <<>>), PlainEntry(3, Blob1), PlainEntry(3, LongBlob),
      RefDeltaEntry(ShaA, <<8, 1>> \o TrailingInsert) }

ToBe32(n) == <<(n \div 16777216) % 256, (n \div 65536) % 256, (n \div 256) % 256, n % 256>>

PackBytes(magic, version, amount, entries, leftover) ==
    magic \o ToBe32(version) \o ToBe32(amount) \o Concat(entries) \o leftover \o ShaB

\* What lies between the last object and the trailer.
Leftovers == {<<>>, <<0>>, PlainEntry(3, Blob1)}

Packfiles ==
    { PackBytes(Str_PACK, 2, Len(entries), entries, leftover) :
          entries \in SeqsUpTo(PackEntries, MaxPackObjects), leftover \in Leftovers }
    \cup { PackBytes(Str_PACK, 2, Len(entries) + 1, entries, <<>>) :
          entries \in SeqsUpTo(PackEntries, MaxPackObjects) }
    \cup { PackBytes(<<80, 65, 67, 88>>, 2, 0, <<>>, <<>>),
           PackBytes(Str_PACK, 3, 0, <<>>, <<>>),
           Str_PACK \o ToBe32(2) \o ToBe32(0) \o <<1, 2, 3>> }

PkInit ==
    /\ PktOff
    /\ CodecOff
    /\ CloneOff
    /\ ValOff
    /\ RdOff
    /\ StOff
    /\ DlOff
    /\ SrOff
    /\ FnOff
    /\ pkStage = "start"
    /\ pkBytes \in Packfiles
    /\ pkOut = PackRead("none", <<>>, 0)

PkRead ==
    /\ pkStage = "start"
    /\ pkOut' = Packfile_read(pkBytes)
    /\ pkStage' = "read"
    /\ UNCHANGED <<pkBytes, pktVars, objVars, cloneVars, valVars, rdVars, stVars, dlVars,
                   srVars, fnVars>>

PkNext == PkRead

(***************************************************************************)
(* The stream readers on raw bytes: PktLine::read_many and                 *)
(* DeltaInstruction::read_many polled until they return None, and one call *)
(* of read_variable_length_integer.                                        *)
(***************************************************************************)
\* Pieces of a pkt-line stream, well formed and not:
\*   "0000"  "0001"  "0004"  "0005" LF  "0005a"  "0006a" LF
\*   "0006a" and "0008aa" (shorter than announced)  "00"  "zzzz"
\*   0xFF "000"  "0006" 0xFF LF  "+005a"
PktPieces ==
    { <<48, 48, 48, 48>>, <<48, 48, 48, 49>>, <<48, 48, 48, 52>>,
      <<48, 48, 48, 53, 10>>, <<48, 48, 48, 53, 97>>, <<48, 48, 48, 54, 97, 10>>,
      <<48, 48, 48, 54, 97>>, <<48, 48, 48, 56, 97, 97>>, <<48, 48>>,
      <<122, 122, 122, 122>>, <<255, 48, 48, 48>>, <<48, 48, 48, 54, 255, 10>>,
      <<43, 48, 48, 53, 97>> }

\* Pieces of a delta instruction stream: Insert of none, of "a", of two bytes
\* with one present; Copy with no byte selected, with offset and length
\* bytes, with the length byte missing, with the third length byte selected.
DeltaPieces ==
    { <<0>>, <<1, 97>>, <<2, 97>>, <<128>>, <<145, 1, 2>>, <<145, 1>>, <<192, 0>> }

StreamsOf(pieces) == {Concat(ps) : ps \in SeqsUpTo(pieces, MaxFrames)}

\* Variable length integers: a first byte, continuation bytes, an end that
\* may lack the byte with the high bit clear.
VarintInputs ==
    { first \o [i \in 1..k |-> c] \o end :
          first \in {<<>>, <<128>>, <<144>>, <<255>>},
          k \in 0..MaxVarint, c \in {128, 255},
          end \in {<<>>, <<1>>, <<2>>, <<127>>, <<1, 1>>} }

SrItem(res, consumed) == [res |-> res, consumed |-> consumed]

SrInit ==
    /\ PktOff
    /\ CodecOff
    /\ CloneOff
    /\ ValOff
    /\ RdOff
    /\ StOff
    /\ DlOff
    /\ PkOff
    /\ FnOff
    /\ srStage = "reading"
    /\ \E kind \in {"pkt", "delta", "varint"} :
          /\ srKind = kind
          /\ srChecks \in (IF kind = "varint" THEN BOOLEAN ELSE {FALSE})
          /\ srTyped \in (IF kind = "varint" THEN BOOLEAN ELSE {FALSE})
          /\ srInput \in (CASE kind = "pkt" -> StreamsOf(PktPieces)
                            [] kind = "delta" -> StreamsOf(DeltaPieces)
                            [] OTHER -> VarintInputs)
    /\ srRest = srInput
    /\ srItems = <<>>

\* One next() on the iterator PktLine::read_many returns.
SrPktNext ==
    /\ srStage = "reading"
    /\ srKind = "pkt"
    /\ IF srRest = <<>>
       THEN /\ srStage' = "done"
            /\ UNCHANGED <<srRest, srItems>>
       ELSE /\ srItems' = Append(srItems,
                SrItem(PktLine_read(srRest).res,
                       Len(srRest) - Len(PktLine_read(srRest).rest)))
            /\ srRest' = PktLine_read(srRest).rest
            /\ UNCHANGED srStage
    /\ UNCHANGED <<srKind, srChecks, srTyped, srInput, pktVars, objVars, cloneVars,
                   valVars, rdVars, stVars, dlVars, pkVars, fnVars>>

\* One next() on the iterator DeltaInstruction::read_many returns.
SrDeltaNext ==
    /\ srStage = "reading"
    /\ srKind = "delta"
    /\ IF srRest = <<>>
       THEN /\ srStage' = "done"
            /\ UNCHANGED <<srRest, srItems>>
       ELSE /\ srItems' = Append(srItems,
                SrItem(DeltaInstruction_read(srRest).res,
                       Len(srRest) - Len(DeltaInstruction_read(srRest).rest)))
            /\ srRest' = DeltaInstruction_read(srRest).rest
            /\ UNCHANGED srStage
    /\ UNCHANGED <<srKind, srChecks, srTyped, srInput, pktVars, objVars, cloneVars,
                   valVars, rdVars, stVars, dlVars, pkVars, fnVars>>

\* One call of read_variable_length_integer.
SrVarint ==
    /\ srStage = "reading"
    /\ srKind = "varint"
    /\ srItems' = <<SrItem(read_variable_length_integer_build(srInput, srTyped, srChecks),
                           Len(srInput)
                           - Len(read_variable_length_integer_build(srInput, srTyped,
                                                                    srChecks).rest))>>
    /\ srRest' = read_variable_length_integer_build(srInput, srTyped, srChecks).rest
    /\ srStage' = "done"
    /\ UNCHANGED <<srKind, srChecks, srTyped, srInput, pktVars, objVars, cloneVars,
                   valVars, rdVars, stVars, dlVars, pkVars, fnVars>>

SrNext == SrPktNext \/ SrDeltaNext \/ SrVarint

(***************************************************************************)
(* Direct calls: DeltaInstruction::apply on instruction lists and bases,   *)
(* send_want_request on its arguments.                                     *)
(***************************************************************************)
ApplyInstrs ==
    {CopyInstr(o, l) : o \in {0, 1}, l \in {0, 2, 3}}
    \cup {InsertInstr(<<>>), InsertInstr(<<97>>), InsertInstr(<<98, 99>>)}

ApplyBases == { <<>>, <<5, 6>>, <<1, 2, 3>> }

ApplyArgs ==
    {[instructions |-> is, source |-> b] :
        is \in SeqsUpTo(ApplyInstrs, MaxInstrs), b \in ApplyBases}

\* The arguments of send_want_request: wants and haves over two object ids,
\* capabilities "a" and "b"; clone calls it with one want, None, None, true.
WantArgs ==
    {[wants |-> w, haves |-> h, capabilities |-> c, is_done |-> d] :
        w \in SeqsUpTo({ShaA, ShaB}, 2),
        h \in {<<>>, << <<>> >>, << <<ShaB>> >>, << <<ShaA, ShaB>> >>},
        c \in {<<>>, << <<>> >>, << << <<97>> >> >>, << << <<97>>, <<98>> >> >>},
        d \in BOOLEAN}

FnInit ==
    /\ PktOff
    /\ CodecOff
    /\ CloneOff
    /\ ValOff
    /\ RdOff
    /\ StOff
    /\ DlOff
    /\ PkOff
    /\ SrOff
    /\ fnStage = "start"
    /\ \/ fnName = "apply" /\ fnArgs \in ApplyArgs
       \/ fnName = "send_want_request" /\ fnArgs \in WantArgs
    /\ fnOut = Outcome("none", <<>>)

\* DeltaInstruction::apply(&instructions, source)
FnApply ==
    /\ fnStage = "start"
    /\ fnName = "apply"
    /\ fnOut' = (IF DeltaInstruction_apply(fnArgs.instructions, fnArgs.source).ok
                 THEN Outcome("ok",
                          DeltaInstruction_apply(fnArgs.instructions, fnArgs.source).val)
                 ELSE Outcome("panic",
                          DeltaInstruction_apply(fnArgs.instructions, fnArgs.source).val))
    /\ fnStage' = "returned"
    /\ UNCHANGED <<fnName, fnArgs, pktVars, objVars, cloneVars, valVars, rdVars, stVars,
                   dlVars, pkVars, srVars>>

\* send_want_request(wants, haves, capabilities, is_done): the body it posts
\* (an Option), and whether it returns the response bytes or an error.
FnSendWantRequest ==
    /\ fnStage = "start"
    /\ fnName = "send_want_request"
    /\ \E request \in {send_want_request(fnArgs.wants, fnArgs.haves,
                                         fnArgs.capabilities, fnArgs.is_done)} :
          IF ~request.ok THEN fnOut' = Outcome("err", <<>>)
          ELSE \E answered \in BOOLEAN :
                  fnOut' = Outcome(IF answered THEN "ok" ELSE "err", <<request.val>>)
    /\ fnStage' = "returned"
    /\ UNCHANGED <<fnName, fnArgs, pktVars, objVars, cloneVars, valVars, rdVars, stVars,
                   dlVars, pkVars, srVars>>

FnNext == FnApply \/ FnSendWantRequest

SpecPkt == PktInit /\ [][PktNext]_vars

SpecCodec == CodecInit /\ [][CodecNext]_vars

SpecClone == CloneInit /\ [][CloneNext]_vars
SpecVal == ValInit /\ [][ValNext]_vars
SpecRead == RdInit /\ [][RdNext]_vars
SpecStore == StInit /\ [][StNext]_vars
SpecDelta == DlInit /\ [][DlNext]_vars
SpecPack == PkInit /\ [][PkNext]_vars
SpecReaders == SrInit /\ [][SrNext]_vars
SpecCalls == FnInit /\ [][FnNext]_vars

(***************************************************************************)
(* C10 (as stated): for every pkt-line L, read(to_bytes(L)) succeeds and   *)
(* yields a value equal to L, an empty binary payload and a binary payload *)
(* ending in 0x0A included.                                                *)
(***************************************************************************)
C10_RoundTripAll ==
    pktStage = "decoded" => pktOut = Ok(pktIn)

\* The pkt-lines the wire format can carry back unchanged.
PktRoundTrips(line) ==
    \/ line.kind = "FlushPkt"
    \/ line.kind = "StringDataPkt"
    \/ /\ line.kind = "BinaryDataPkt"
       /\ line.data # <<>>
       /\ line.data[Len(line.data)] # LF

(***************************************************************************)
(* C10 (amended): read(to_bytes(L)) = Ok(L) for FlushPkt, for every        *)
(* StringDataPkt, and for every BinaryDataPkt whose payload is not empty   *)
(* and does not end in 0x0A (frames of at most 0xffff bytes); for an empty  *)
(* BinaryDataPkt and for a BinaryDataPkt ending in 0x0A the value read     *)
(* back is never the value written.                                        *)
(***************************************************************************)
C10_RoundTrip ==
    pktStage = "decoded" =>
        /\ PktRoundTrips(pktIn) => pktOut = Ok(pktIn)
        /\ ~PktRoundTrips(pktIn) => pktOut # Ok(pktIn)

C10_Witness ==
    /\ pktStage = "decoded"
    /\ pktIn.kind = "StringDataPkt"
    /\ pktIn.data = <<>>
    /\ pktOut = Ok(pktIn)

(***************************************************************************)
(* Properties of clone.                                                    *)
(***************************************************************************)
HeadPath == PathJoin(DotGit, Str_HEAD)
RefPath(name) == PathJoin(DotGit, name)
RefFilesWritten == {name \in DOMAIN ref_discovery.refs : RefPath(name) \in DOMAIN files}
StoredAt(sha) == get_object_file_path(HexEncode(sha)) \in DOMAIN files

\* What any order of resolution can obtain: every delta of the pack is tried
\* against the map, once for each delta of the pack, keeping what resolves.
RECURSIVE ApplyPass(_, _)
ApplyPass(map, ds) ==
    IF ds = <<>> THEN map
    ELSE ApplyPass(IF ApplyOneDelta(map, Head(ds)).ok
                   THEN ApplyOneDelta(map, Head(ds)).val ELSE map,
                   Tail(ds))

RECURSIVE Fixpoint(_, _, _)
Fixpoint(map, ds, rounds) ==
    IF rounds = 0 THEN map ELSE Fixpoint(ApplyPass(map, ds), ds, rounds - 1)

Obtainable(cs) ==
    DOMAIN Fixpoint(CollectObjects(ObjectsOf(cs), EmptyMap), DeltasOf(cs),
                    Len(DeltasOf(cs)))

\* C1: clone resolves the ref-deltas of a pack whatever their order: it fails
\* for want of a delta's base only when no order of resolution obtains that
\* base from the objects and the deltas of the pack.
C1_DeltaOrderIndependent ==
    (pc = "Fatal" /\ failure = "failed to find object with name") =>
        Head(deltas).obj_name \notin Obtainable(chunks)

\* C2: in every state of a clone, every ref file in the target directory holds
\* the sha of an object that is in the loose object store.
C2_RefsPointToStoredObjects ==
    \A name \in RefFilesWritten : StoredAt(ref_discovery.refs[name])

\* C3: .git/HEAD or a ref file exists only once the pack has been parsed, the
\* ref-deltas have all been applied and every object of the object map is in
\* the loose store.
C3_RefsAfterObjects ==
    (HeadPath \in DOMAIN files \/ RefFilesWritten # {}) =>
        /\ PktLine_read(want_response.line).res = Ok(StringDataPkt(Str_NAK))
        /\ Packfile_read_chunks(want_response.raws) = Ok(chunks)
        /\ deltas = <<>>
        /\ \A k \in DOMAIN object_map :
              /\ StoredAt(AnyGitObject_sha1(object_map[k]))
              /\ files[get_object_file_path(HexEncode(AnyGitObject_sha1(object_map[k])))].data
                    = GitObject_encode(object_map[k].type, object_map[k].val)

\* A clone that has written HEAD and a ref for a pack that carried a ref-delta.
C3_Witness ==
    /\ HeadPath \in DOMAIN files
    /\ RefFilesWritten # {}
    /\ DeltasOf(chunks) # <<>>

\* C5: the checkout fails for an entry's mode only when the mode is none of
\* Regular, Executable, Symbolic and Directory.
C5_CheckoutModes ==
    failure = "GitClient::write_tree: unexpected file mode" =>
        Head(Head(stack).entries).mode
            \notin {"Regular", "Executable", "Symbolic", "Directory"}

\* C6: every ref file clone writes holds the 40 hex characters of the ref's
\* sha and then one newline.
C6_RefFileContent ==
    \A name \in RefFilesWritten :
        files[RefPath(name)].data = HexEncode(ref_discovery.refs[name]) \o <<LF>>

\* C7: when .git/HEAD exists it reads "ref: <name>\n" for a discovered ref
\* <name> whose sha is HEAD's; when no discovered ref has HEAD's sha, HEAD is
\* never written and clone gets no further than writing it.
C7_HeadNamesHeadRef ==
    LET matching == {n \in DOMAIN ref_discovery.refs :
                        ref_discovery.refs[n] = ref_discovery.head_object_id}
    IN /\ HeadPath \in DOMAIN files =>
            \E n \in matching : files[HeadPath].data = Str_ref \o n \o <<LF>>
       /\ matching = {} =>
            /\ HeadPath \notin DOMAIN files
            /\ pc \notin {"WritingRefs", "Checkout", "Done"}

\* A finished clone whose server advertised two refs, one of them not HEAD's.
C7_Witness ==
    /\ pc = "Done"
    /\ HeadPath \in DOMAIN files
    /\ \E n \in DOMAIN ref_discovery.refs :
          ref_discovery.refs[n] # ref_discovery.head_object_id

\* The objects a pack carries, as received: the type and the body of each
\* non-delta chunk, and for each ref-delta in turn the body its instructions
\* build from the carried object its base names.
RawTypeName(code) ==
    CASE code = 1 -> "commit" [] code = 2 -> "tree" [] OTHER -> "blob"

ReceivedId(o) == Sha1(HeaderFor(o.type, o.body) \o o.body)

RECURSIVE Received(_, _)
Received(raws, known) ==
    IF raws = <<>> THEN known
    ELSE LET bases == {o \in known : ReceivedId(o) = Head(raws).obj_name}
         IN Received(Tail(raws),
                known \cup {[type |-> o.type,
                             body |-> DeltaInstruction_apply(
                                         Head(raws).instructions, o.body).val]
                            : o \in bases})

ReceivedObjects(raws) ==
    Received(SelectSeq(raws, LAMBDA r : r.code = 7),
             {[type |-> RawTypeName(raws[i].code), body |-> raws[i].body]
                : i \in {j \in 1..Len(raws) : raws[j].code # 7}})

\* C8: after a clone that reports success, every object received in the
\* pack, carried whole or built from a ref-delta, is in the loose store at
\* the path of its sha.
C8_PackObjectsStored ==
    pc = "Done" =>
        \A o \in ReceivedObjects(want_response.raws) : StoredAt(ReceivedId(o))

\* The steps of clone in order; "Fatal" is where every failure ends.
StepRank(step) ==
    CASE step = "Init" -> 0
      [] step = "Discovered" -> 1
      [] step = "PackReceived" -> 2
      [] step = "ObjectsIndexed" -> 3
      [] step = "Resolved" -> 4
      [] step = "WritingObjects" -> 5
      [] step = "WritingHead" -> 6
      [] step = "WritingRefs" -> 7
      [] step = "Checkout" -> 8
      [] step = "Done" -> 9
      [] step = "Fatal" -> 10

\* C9: clone only moves forward through its steps, and once a step has
\* failed no step runs after it: no request is sent, nothing is written to
\* the target directory, and clone does not come to report success.
C9_FailStop ==
    [][/\ StepRank(pc') >= StepRank(pc)
       /\ failure' # "none" => pc' = "Fatal"
       /\ failure # "none" =>
            /\ pc' = pc
            /\ failure' = failure
            /\ files' = files
            /\ dirs' = dirs
            /\ requests' = requests
            /\ object_map' = object_map]_vars

\* A clone that failed after it had written files to the target directory.
C9_Witness ==
    /\ pc = "Fatal"
    /\ failure # "none"
    /\ files # EmptyMap

(***************************************************************************)
(* C11 as stated: for every commit C, committer present or absent,         *)
(* Commit::decode_body(C.encode_body()) equals C field by field.           *)
(***************************************************************************)
C11_RoundTripAll ==
    (valStage = "decoded" /\ valType = "commit") => valOut = Ok(valObj)

\* encode_body writes the author on the committer line of a commit built
\* without a committer, so the commit read back has Some(author) there.
Committer_or_author(commit) ==
    IF commit.committer = <<>> THEN <<commit.author>> ELSE commit.committer

(***************************************************************************)
(* C11: for every commit C, Commit::decode_body(C.encode_body()) is Ok of  *)
(* a commit with C's tree, C's parents in the same order, C's author and   *)
(* C's message, whose committer is Some of C's committer when C has one    *)
(* and Some of C's author when C has none.                                 *)
(***************************************************************************)
C11_RoundTrip ==
    (valStage = "decoded" /\ valType = "commit") =>
        valOut = Ok([valObj EXCEPT !.committer = Committer_or_author(valObj)])

C11_Witness ==
    /\ valStage = "decoded"
    /\ valType = "commit"
    /\ valObj.committer = <<>>
    /\ Len(valObj.parent_hash) = 2
    /\ \E i \in 1..Len(valObj.author.name) : valObj.author.name[i] = SP
    /\ valOut.ok
    /\ valOut.val.committer = <<valObj.author>>
    /\ valOut.val.parent_hash = valObj.parent_hash

\* The entries are in strictly ascending order of name: sorted, and no two
\* with the same name.
StrictlySortedByName(entries) ==
    \A i \in 1..(Len(entries) - 1) : LexLess(entries[i].name, entries[i + 1].name)

(***************************************************************************)
(* C12: every Tree produced by Tree::new or by Tree::decode_body has its   *)
(* entries sorted by name in lexicographic byte order and no two entries   *)
(* with the same name.                                                     *)
(***************************************************************************)
C12_SortedUnique ==
    valType = "tree" =>
        /\ (valStage = "built" => StrictlySortedByName(valObj))
        /\ ((valStage = "decoded" /\ valOut.ok) => StrictlySortedByName(valOut.val))

\* The lists with the same entries as the given one, in every order.
PermutationsOf(entries) ==
    LET n == Len(entries)
    IN {[i \in 1..n |-> entries[f[i]]] :
            f \in {g \in [1..n -> 1..n] : \A i, j \in 1..n : g[i] = g[j] => i = j}}

(***************************************************************************)
(* C13: for every list of tree entries and every permutation of it,        *)
(* Tree::new of the list and Tree::new of the permutation have identical   *)
(* encode_body bytes and the same sha.                                     *)
(***************************************************************************)
C13_OrderIndependent ==
    (valType = "tree" /\ valStage = "encoded") =>
        \A p \in PermutationsOf(valIn) :
            /\ Tree_encode_body(Tree_new(p)) = valBytes
            /\ GitObject_sha1("tree", Tree_new(p)) = GitObject_sha1("tree", valObj)

\* The file AnyGitObject::read opens, when there is one, and its parts as the
\* claim names them.
RdFile == rdStore[get_object_file_path(rdSha)]
RdMissing == get_object_file_path(rdSha) \notin DOMAIN rdStore
RdInflated == decompress(RdFile).val
RdHeader == TakeWhileNot(RdInflated, NUL).taken
RdBody == TakeWhileNot(RdInflated, NUL).rest
RdTypeStr == TakeWhileNot(RdHeader, SP).taken
RdSizeStr == TakeWhileNot(RdHeader, SP).rest
RdWellFormedHeader ==
    /\ ~RdMissing
    /\ decompress(RdFile).ok
    /\ IndexOf(RdInflated, NUL) # 0
    /\ IsUtf8(RdHeader)
    /\ IndexOf(RdHeader, SP) # 0
    /\ \E t \in ObjectTypes : TypeName(t) = RdTypeStr
    /\ DecParse(RdSizeStr).ok

RdCaseSizeDiffers == RdWellFormedHeader /\ Len(RdBody) # DecParse(RdSizeStr).val

RdCaseOther ==
    \/ RdMissing
    \/ ~decompress(RdFile).ok
    \/ IndexOf(RdInflated, NUL) = 0
    \/ /\ IsUtf8(RdHeader)
       /\ IndexOf(RdHeader, SP) # 0
       /\ \/ ~\E t \in ObjectTypes : TypeName(t) = RdTypeStr
          \/ ~DecParse(RdSizeStr).ok

(***************************************************************************)
(* C15: reading a loose object ends with an error, not an object and not a *)
(* crash, when the file is missing, decompression fails, the decompressed  *)
(* bytes contain no \0, the header type is not blob/tree/commit, the       *)
(* header size is not a decimal number, or the body length differs from    *)
(* the header size.                                                        *)
(***************************************************************************)
C15_ReadErrors ==
    (rdStage = "read" /\ (RdCaseOther \/ RdCaseSizeDiffers)) => rdOut.outcome = "err"

\* <root>/.git/objects/xx/yyy... for the 40 hex characters xxyyy...
ObjectPathOf(hex) ==
    DotGit \o <<SLASH>> \o Str_objects \o <<SLASH>> \o SubSeq(hex, 1, 2)
    \o <<SLASH>> \o SubSeq(hex, 3, Len(hex))

(***************************************************************************)
(* C14: every file the program has written under .git/objects is at        *)
(* xx/yyy..., holds the zlib-compressed "<type> <size>\0<body>" of an       *)
(* object, and xxyyy... is the hex SHA-1 of those bytes, the sha the       *)
(* object computes for itself.                                             *)
(***************************************************************************)
C14_StoreKeyIntegrity ==
    \A path \in DOMAIN stFiles :
        /\ decompress(stFiles[path]).ok
        /\ AnyGitObject_decode(stFiles[path]).outcome = "ok"
        /\ path = ObjectPathOf(HexEncode(Sha1(decompress(stFiles[path]).val)))
        /\ path = ObjectPathOf(HexEncode(AnyGitObject_sha1(AnyGitObject_decode(stFiles[path]).val)))

C14_Witness ==
    /\ stCmd = "write-tree"
    /\ stOut.outcome = "ok"
    /\ Cardinality(DOMAIN stFiles) >= 4
    /\ \E p, q \in DOMAIN stFiles :
          /\ AnyGitObject_decode(stFiles[p]).val.type = "blob"
          /\ AnyGitObject_decode(stFiles[q]).val.type = "tree"

\* The mode the claim gives a child, from what lstat says the child is.
ClaimedMode(node) ==
    IF node.kind = "dir" THEN "Directory"
    ELSE IF node.kind = "symlink" THEN "Symbolic"
    ELSE IF node.exec THEN "Executable"
    ELSE "Regular"

(***************************************************************************)
(* C16: when a tree is built from a directory, every child other than one  *)
(* named .git yields exactly one entry, whose mode is 40000 for a          *)
(* directory, 120000 for a symbolic link, 100755 for a file with an        *)
(* execute bit set, and 100644 otherwise.                                  *)
(***************************************************************************)
C16_ChildModes ==
    (stPc = "walking" /\ Head(stStack).pending = <<>>) =>
        LET frame == Head(stStack)
            dir == Canon(worktree, frame.path)[1]
            children == ReadDir(worktree, frame.path) \ {DotGit}
        IN /\ Len(frame.entries) = Cardinality(children)
           /\ \A c \in children :
                 \E i \in 1..Len(frame.entries) :
                    /\ frame.entries[i].name = c
                    /\ frame.entries[i].mode = ClaimedMode(worktree[PathJoin(dir, c)])

\* The tree stored under a path, and whether a sha has its file.
TreeAt(fs, path) == AnyGitObject_decode(fs[path]).val
HasObject(fs, sha) == ObjectPathOf(HexEncode(sha)) \in DOMAIN fs

RECURSIVE AllStored(_, _)
AllStored(fs, sha) ==
    /\ HasObject(fs, sha)
    /\ LET obj == AnyGitObject_decode(fs[ObjectPathOf(HexEncode(sha))]).val
       IN obj.type = "tree" =>
             \A i \in 1..Len(obj.val) : AllStored(fs, obj.val[i].hash)

(***************************************************************************)
(* C17: at every step of FileTree::write a tree object enters the store    *)
(* only when every blob and subtree its entries refer to is in the store,  *)
(* on success every object reachable from the returned root tree is in the *)
(* store, and FileTree::tree_object (no root) writes nothing.              *)
(***************************************************************************)
C17_StoreClosed ==
    [][stPc = "walking" =>
          /\ \A path \in DOMAIN stFiles' \ DOMAIN stFiles :
                TreeAt(stFiles', path).type = "tree" =>
                    \A i \in 1..Len(TreeAt(stFiles', path).val) :
                        HasObject(stFiles', TreeAt(stFiles', path).val[i].hash)
          /\ (stCmd = "write-tree" /\ stOut'.outcome = "ok") =>
                AllStored(stFiles', stOut'.val)
          /\ stRoot = <<>> => (stFiles' = stFiles /\ stDirs' = stDirs)]_vars

C17_Witness ==
    /\ stCmd = "write-tree"
    /\ stOut.outcome = "ok"
    /\ HasObject(stFiles, stOut.val)
    /\ \E i \in 1..Len(TreeAt(stFiles, ObjectPathOf(HexEncode(stOut.val))).val) :
          LET entry == TreeAt(stFiles, ObjectPathOf(HexEncode(stOut.val))).val[i]
          IN /\ entry.mode = "Directory"
             /\ HasObject(stFiles, entry.hash)
             /\ Len(TreeAt(stFiles, ObjectPathOf(HexEncode(entry.hash))).val) > 0

\* What the layout of a Copy instruction says of the harness input: the
\* flags, the selected offset bytes and the selected length bytes.
DlFlags == dlBytes[1] % 128
DlBit(i) == (DlFlags \div (2 ^ i)) % 2 = 1
DlSelectedBefore(i) == Cardinality({j \in 0..(i - 1) : DlBit(j)})
DlByteOf(i) == dlBytes[2 + DlSelectedBefore(i)]
DlSelectedCount == DlSelectedBefore(7)

RECURSIVE DlAccumulate(_, _, _)
DlAccumulate(lo, i, hi) ==
    IF i > hi THEN 0
    ELSE (IF DlBit(i) THEN DlByteOf(i) * (2 ^ (8 * (i - lo))) ELSE 0)
         + DlAccumulate(lo, i + 1, hi)

DlOffset == DlAccumulate(0, 0, 3)
DlLength == DlAccumulate(4, 4, 6)

(***************************************************************************)
(* C18: a Copy instruction whose length accumulator is zero (no length     *)
(* byte selected, or all selected length bytes zero) decodes to the length *)
(* 0x10000, so applying it copies 65536 bytes of the base.                 *)
(***************************************************************************)
C18_ZeroLengthCopy ==
    (dlStage = "read" /\ DlLength = 0) =>
        /\ dlInstrs.ok
        /\ dlInstrs.val[1].op = "Copy"
        /\ dlInstrs.val[1].length = 65536

(***************************************************************************)
(* C19: a Copy instruction with flag mask f consumes one byte for each set *)
(* bit of f among bits 0..3 and one for each set bit among bits 4..6, each *)
(* ORed into the offset or the length accumulator shifted by 8 times its   *)
(* index, and the next instruction starts right after the last selected    *)
(* byte.                                                                   *)
(***************************************************************************)
C19_CopyBytesConsumed ==
    dlStage = "read" =>
        /\ dlInstrs.ok
        /\ Len(dlInstrs.val) = 2
        /\ dlInstrs.val[1].op = "Copy"
        /\ dlInstrs.val[1].offset = DlOffset
        /\ (DlLength # 0 => dlInstrs.val[1].length = DlLength)
        /\ dlInstrs.val[2] = InsertInstr(<<97>>)
        /\ DeltaInstruction_read(dlBytes).rest = Drop(dlBytes, 1 + DlSelectedCount)

\* C20: Packfile::read returns Ok only with its cursor, after the declared
\* number of objects, exactly at the first byte of the 20-byte trailer; a pack
\* with bytes between the last object and the trailer is not accepted.
C20_CursorAtTrailer ==
    (pkStage = "read" /\ pkOut.outcome = "ok")
        => 12 + pkOut.bytes_read = Len(pkBytes) - ShaLen

\* C21: a pkt-line stream fails as a whole on the first bad frame: once
\* PktLine::read_many has yielded an error, it yields no further frame from
\* the rest of the input.
C21_FailsWholeStream ==
    srKind = "pkt" =>
        \A i \in DOMAIN srItems : ~srItems[i].res.ok => i = Len(srItems)

\* The first frame of the stream as the classification by LLLL has it.
SrLenDigits == Take(srInput, 4)
SrHasLen == Len(srInput) >= 4 /\ \A i \in 1..4 : HexValue(srInput[i]) >= 0
SrLen == HexAccum(SrLenDigits, 0)
SrPayload == SubSeq(srInput, 5, SrLen)
SrTruncated == SrLen > 4 /\ Len(srInput) < SrLen

\* C22: PktLine::read classifies a frame by its four hex digits LLLL: 0000 is
\* a FlushPkt that takes no payload, 1 to 4 is an error, and otherwise the
\* payload is exactly the next LLLL - 4 bytes, never fewer, a StringDataPkt
\* without its final LF when it ends in LF and a BinaryDataPkt when it does not.
C22_FrameByLength ==
    (srKind = "pkt" /\ srItems # <<>> /\ SrHasLen) =>
        CASE SrLen = 0 ->
                srItems[1] = SrItem(Ok(FlushPkt), 4)
          [] SrLen \in 1..4 ->
                ~srItems[1].res.ok
          [] SrTruncated ->
                ~srItems[1].res.ok
          [] SrPayload[Len(SrPayload)] = LF /\ IsUtf8(SrPayload) ->
                srItems[1] =
                    SrItem(Ok(StringDataPkt(SubSeq(SrPayload, 1, Len(SrPayload) - 1))), SrLen)
          [] SrPayload[Len(SrPayload)] = LF ->
                TRUE
          [] OTHER ->
                srItems[1] = SrItem(Ok(BinaryDataPkt(SrPayload)), SrLen)

\* The variable length integer of srInput as the base-128 layout has it.
\* SrLast: the first byte with the high bit clear.
SrTerminated == \E n \in 1..Len(srInput) : srInput[n] < 128
SrLast == CHOOSE n \in 1..Len(srInput) :
              srInput[n] < 128 /\ \A m \in 1..(n - 1) : srInput[m] >= 128
SrShift(k) == IF ~srTyped THEN 7 * (k - 1) ELSE IF k = 1 THEN 0 ELSE 4 + 7 * (k - 2)
SrData(k) == IF srTyped /\ k = 1 THEN srInput[k] % 16 ELSE srInput[k] % 128
SrLayoutBits == UNION {{i + SrShift(k) : i \in BitsOf(SrData(k))} : k \in 1..SrLast}

\* C23: read_variable_length_integer decodes a little-endian base-128 integer:
\* with type extraction the first byte gives the type in bits 6..4 and four
\* size bits, the following bytes seven bits each at shifts 4, 11, 18, ...;
\* without it byte k gives seven bits at shift 7k; reading stops at the first
\* byte with the high bit clear and the byte count reported is the bytes
\* consumed.  0x90 0x01 with type is (16, type 1), 0x80 0x02 without is 256.
C23_VarintDecoding ==
    (srKind = "varint" /\ srStage = "done" /\ SrTerminated) =>
        /\ srItems[1].res.outcome = "ok"
        /\ srItems[1].res.bits = SrLayoutBits
        /\ srItems[1].res.obj_type
              = (IF srTyped THEN <<(srInput[1] \div 16) % 8>> ELSE <<>>)
        /\ srItems[1].res.bytes_read = SrLast
        /\ srItems[1].consumed = SrLast
        /\ (srTyped /\ srInput = <<144, 1>>) =>
              (BitsValue(srItems[1].res.bits) = 16 /\ srItems[1].res.obj_type = <<1>>)
        /\ (~srTyped /\ srInput = <<128, 2>>) => BitsValue(srItems[1].res.bits) = 256

\* What instruction i of the list contributes, and where it starts in the
\* output.
FnPiece(i) ==
    IF fnArgs.instructions[i].op = "Copy"
    THEN SubSeq(fnArgs.source, fnArgs.instructions[i].offset + 1,
                fnArgs.instructions[i].offset + fnArgs.instructions[i].length)
    ELSE fnArgs.instructions[i].data
FnPieceLen(i) ==
    IF fnArgs.instructions[i].op = "Copy" THEN fnArgs.instructions[i].length
    ELSE Len(fnArgs.instructions[i].data)

RECURSIVE FnLenBefore(_)
FnLenBefore(i) == IF i <= 1 THEN 0 ELSE FnLenBefore(i - 1) + FnPieceLen(i - 1)

FnCopiesInRange ==
    \A i \in DOMAIN fnArgs.instructions :
        fnArgs.instructions[i].op = "Copy" =>
            fnArgs.instructions[i].offset + fnArgs.instructions[i].length
                <= Len(fnArgs.source)

\* C24: for every base and every instruction list whose copies stay inside
\* the base, DeltaInstruction::apply returns, in instruction order, the bytes
\* base[offset..offset+length] of each Copy and the literal bytes of each
\* Insert: its length is the sum of the copy and insert lengths, the empty
\* list gives the empty output, and Copy{0, len(base)} alone gives the base.
C24_ApplyConcatenates ==
    (fnStage = "returned" /\ fnName = "apply" /\ FnCopiesInRange) =>
        /\ fnOut.outcome = "ok"
        /\ Len(fnOut.val) = FnLenBefore(Len(fnArgs.instructions) + 1)
        /\ \A i \in DOMAIN fnArgs.instructions :
              SubSeq(fnOut.val, FnLenBefore(i) + 1, FnLenBefore(i) + FnPieceLen(i))
                  = FnPiece(i)
        /\ (fnArgs.instructions = <<>> => fnOut.val = <<>>)
        /\ (fnArgs.instructions = <<CopyInstr(0, Len(fnArgs.source))>>
              => fnOut.val = fnArgs.source)

\* A Copy from inside the base between two Inserts has been applied.
C24_Witness ==
    /\ fnStage = "returned"
    /\ fnName = "apply"
    /\ fnArgs.source = <<1, 2, 3>>
    /\ fnArgs.instructions = <<InsertInstr(<<97>>), CopyInstr(1, 2), InsertInstr(<<98, 99>>)>>
    /\ fnOut = Outcome("ok", <<97, 2, 3, 98, 99>>)

\* The sha of an object of the map, from its type and its encoded body.
ShaOfEntry(obj) ==
    Sha1(HeaderFor(obj.type, AnyGitObject_encode_body(obj))
         \o AnyGitObject_encode_body(obj))

\* C25: delta resolution preserves the type: the object clone inserts into
\* the object map for a ref-delta has the variant (blob, tree or commit) of
\* the base it was applied to, and its key is the sha computed from it.
C25_DeltaPreservesType ==
    [][(pc = "ObjectsIndexed" /\ pc' # "Fatal") =>
          \E k \in DOMAIN object_map' :
              /\ object_map' = Put(object_map, k, object_map'[k])
              /\ object_map'[k].type = object_map[Head(deltas).obj_name].type
              /\ k = ShaOfEntry(object_map'[k])]_vars

\* Clone has succeeded on a pack with a ref-delta on a tree or on a commit,
\* whose result is in the map under a sha of its own.
C25_Witness ==
    /\ pc = "Done"
    /\ \E i \in DOMAIN chunks :
          /\ IsDelta(chunks[i])
          /\ object_map[chunks[i].obj_name].type \in {"tree", "commit"}
          /\ \E k \in DOMAIN object_map :
                /\ k # chunks[i].obj_name
                /\ object_map[k].type = object_map[chunks[i].obj_name].type
                /\ AnyGitObject_encode_body(object_map[k])
                      = DeltaInstruction_apply(chunks[i].instructions,
                            AnyGitObject_encode_body(object_map[chunks[i].obj_name])).val

\* C26: in every clone that reports success, each ref-delta was applied to a
\* base whose encoded body has the length base_obj_size, and the buffer its
\* instructions produced has the length target_obj_size.
C26_DeltaSizesChecked ==
    pc = "Done" =>
        \A i \in DOMAIN chunks :
            IsDelta(chunks[i]) =>
                /\ Len(AnyGitObject_encode_body(object_map[chunks[i].obj_name]))
                      = chunks[i].base_obj_size
                /\ Len(DeltaInstruction_apply(chunks[i].instructions,
                          AnyGitObject_encode_body(object_map[chunks[i].obj_name])).val)
                      = chunks[i].target_obj_size

\* The frames of a request body, read one after the other.
RECURSIVE FramesOf(_)
FramesOf(bytes) ==
    IF bytes = <<>> THEN <<>>
    ELSE <<PktLine_read(bytes).res>> \o FramesOf(PktLine_read(bytes).rest)

FnPosted == fnOut.val[1]
FnWants == Len(fnArgs.wants)
FnHaves == IF fnArgs.haves = <<>> THEN 0 ELSE Len(fnArgs.haves[1]) + 1
FnIsLine(frame, text) ==
    frame.ok /\ frame.val.kind = "StringDataPkt" /\ Take(frame.val.data, Len(text)) = text

\* C27: the upload-pack request body of a fresh clone (one want, no haves, no
\* capabilities, done) is exactly the pkt-lines "want <head-sha>", flush,
\* "done"; and whatever its arguments send_want_request sends every want
\* before the first flush, the haves and their flush after it, and "done"
\* last when is_done is true.
C27_WantRequestOrder ==
    (fnStage = "returned" /\ fnName = "send_want_request" /\ fnOut.val # <<>>) =>
        /\ (FnWants = 1 /\ fnArgs.haves = <<>> /\ fnArgs.capabilities = <<>>
               /\ fnArgs.is_done)
              => FnPosted = <<48, 48, 51, 50>> \o Str_want \o HexEncode(fnArgs.wants[1])
                               \o <<LF>> \o <<48, 48, 48, 48>>
                               \o <<48, 48, 48, 57>> \o Str_done \o <<LF>>
        /\ Len(FramesOf(FnPosted)) = FnWants + 1 + FnHaves + 1
        /\ \A i \in 1..FnWants :
              FnIsLine(FramesOf(FnPosted)[i], Str_want \o HexEncode(fnArgs.wants[i]))
        /\ FramesOf(FnPosted)[FnWants + 1] = Ok(FlushPkt)
        /\ \A i \in 1..(FnHaves - 1) :
              FramesOf(FnPosted)[FnWants + 1 + i]
                  = Ok(StringDataPkt(Str_have \o HexEncode(fnArgs.haves[1][i])))
        /\ (FnHaves > 0 => FramesOf(FnPosted)[FnWants + 1 + FnHaves] = Ok(FlushPkt))
        /\ (fnArgs.is_done
              => FramesOf(FnPosted)[Len(FramesOf(FnPosted))] = Ok(StringDataPkt(Str_done)))

\* The request of a fresh clone has been posted; so has one with two wants,
\* two haves and done.
C27_Witness ==
    /\ fnStage = "returned"
    /\ fnName = "send_want_request"
    /\ fnOut.outcome = "ok"
    /\ fnArgs.is_done
    /\ \/ fnArgs.wants = <<ShaA>> /\ fnArgs.haves = <<>> /\ fnArgs.capabilities = <<>>
       \/ fnArgs.wants = <<ShaA, ShaB>> /\ fnArgs.haves = << <<ShaA, ShaB>> >>

\* The frames of the answer to ref discovery, and where the flush that closes
\* the ref list is: 0 when no flush follows the head line.
InfoFrames == FramesOf(response[1])
IsFlushFrame(frame) == frame.ok /\ frame.val.kind = "FlushPkt"
IsStringFrame(frame) == frame.ok /\ frame.val.kind = "StringDataPkt"
ClosingFlush ==
    LET at == {i \in 4..Len(InfoFrames) : IsFlushFrame(InfoFrames[i])}
    IN IF at = {} THEN 0 ELSE CHOOSE i \in at : \A j \in at : i <= j
InfoHead == TakeWhileNot(InfoFrames[3].val.data, NUL).taken
InfoRefLines == {i \in 4..(ClosingFlush - 1) : IsStringFrame(InfoFrames[i])}
PrescribedOrder ==
    /\ Len(InfoFrames) >= 4
    /\ IsStringFrame(InfoFrames[1])
    /\ InfoFrames[1].val.data = Str_service
    /\ IsFlushFrame(InfoFrames[2])
    /\ IsStringFrame(InfoFrames[3])
    /\ TakeWhileNot(InfoHead, SP).rest = Str_HEAD
    /\ ClosingFlush # 0
    /\ InfoRefLines = 4..(ClosingFlush - 1)
DiscoveryAccepted == pc \notin {"off", "Init"} /\ ref_discovery # NoRefs
DiscoveryRejected == pc \notin {"off", "Init"} /\ ref_discovery = NoRefs

\* C28: ref discovery accepts an answer only when its frames are, in order,
\* the line "# service=git-upload-pack", a flush, a line whose ref name before
\* the NUL is HEAD, lines of refs, and a flush; head_object_id is then the sha
\* of the HEAD line and the ref map holds the refs of the lines between the
\* HEAD line and the closing flush.  When discovery does not accept, clone
\* has failed and no upload-pack request is sent.
C28_DiscoveryOrder ==
    /\ DiscoveryAccepted =>
          /\ response # <<>>
          /\ PrescribedOrder
          /\ HexEncode(ref_discovery.head_object_id) = TakeWhileNot(InfoHead, SP).taken
          /\ DOMAIN ref_discovery.refs
                = {TakeWhileNot(InfoFrames[i].val.data, SP).rest : i \in InfoRefLines}
          /\ \A i \in InfoRefLines :
                HexEncode(ref_discovery.refs[TakeWhileNot(InfoFrames[i].val.data, SP).rest])
                    = TakeWhileNot(InfoFrames[i].val.data, SP).taken
    /\ DiscoveryRejected =>
          /\ pc = "Fatal"
          /\ \A i \in 1..Len(requests) : requests[i].method # "POST"

\* The steps of clone before create_dir(path/.git).
PreWrite == {"Init", "Discovered", "PackReceived", "ObjectsIndexed", "Resolved"}
HeadTreeFound ==
    /\ ref_discovery.head_object_id \in DOMAIN object_map
    /\ object_map[ref_discovery.head_object_id].type = "commit"
    /\ object_map[ref_discovery.head_object_id].val.tree_hash \in DOMAIN object_map
    /\ object_map[object_map[ref_discovery.head_object_id].val.tree_hash].type = "tree"

\* C29: clone creates no file and no directory in the target directory
\* until ref discovery, the upload-pack request, the NAK line, the parse of
\* the pack, every ref-delta and the lookups of the HEAD commit and its root
\* tree have all succeeded; a step that fails before then leaves the files
\* and the directories of the target as they were.
C29_NothingWrittenEarly ==
    [][/\ (pc \in PreWrite /\ pc' \in PreWrite \cup {"Fatal"})
             => (files' = files /\ dirs' = dirs)
       /\ (files' # files \/ dirs' # dirs) =>
             /\ ref_discovery # NoRefs
             /\ \E i \in 1..Len(requests) : requests[i].method = "POST"
             /\ PktLine_read(want_response.line).res.ok
             /\ PktLine_read(want_response.line).res.val = StringDataPkt(Str_NAK)
             /\ Packfile_read_chunks(want_response.raws).ok
             /\ deltas = <<>>
             /\ HeadTreeFound]_vars

\* Clone got as far as the lookup of the HEAD commit, did not find it, and
\* the target directory is empty.
C29_Witness ==
    /\ pc = "Fatal"
    /\ failure = "GitClient::clone: failed to find HEAD object"
    /\ chunks # <<>>
    /\ deltas = <<>>
    /\ files = EmptyMap
    /\ dirs = {}

RECURSIVE SrConsumed(_)
SrConsumed(items) ==
    IF items = <<>> THEN 0 ELSE Head(items).consumed + SrConsumed(Tail(items))

\* C30: every stream reader terminates on finite input: each item
\* PktLine::read_many or DeltaInstruction::read_many yields, Ok or Err, has
\* consumed at least one byte, what the items consumed is what is gone from
\* the input, and the reader stops once the input is used up;
\* read_variable_length_integer ends with a value when a byte with the high
\* bit clear comes, and with an error when the input ends before one.
C30_ReadersTerminate ==
    /\ srKind \in {"pkt", "delta"} =>
          /\ \A i \in DOMAIN srItems : srItems[i].consumed >= 1
          /\ SrConsumed(srItems) = Len(srInput) - Len(srRest)
          /\ srStage = "done" => srRest = <<>>
    /\ (srKind = "varint" /\ srStage = "done") =>
          /\ srItems[1].res.outcome \in {"ok", "err"}
          /\ srItems[1].res.outcome = "ok" <=> SrTerminated

====
